---- MODULE Spec2Model ----
(***************************************************************************)
(* Model of the trendspy-js client (class Trends): the session transport   *)
(* (_initSession, _get with throttle and retry loop), the request encoder  *)
(* and the two-phase token protocol.  Time is in milliseconds, as in the   *)
(* code (Date.now(), setTimeout).                                          *)
(***************************************************************************)
EXTENDS Integers, Sequences, FiniteSets, TLC

\* ---- bounds of the model ----
MaxRetriesBound == 3        \* constructor option maxRetries ranges over 1..MaxRetriesBound
MaxCalls == 2               \* number of public operations called on the instance
LatencyMs == 300            \* a network round trip that reaches the server takes LatencyMs milliseconds
MaxFaults == 3              \* the environment answers at most MaxFaults send attempts with something else than 200
ProtocolCalls == 1          \* calls of any kind in SpecProtocol; further calls fail validation
ProtocolFaults == 1         \* send attempts without a 200 in SpecProtocol
MaxLines == 3               \* lines of a protected-JSON body in SpecParse
MaxItems == 3               \* elements of an array passed to _encodeItems in SpecEncode
MaxLabels == 2              \* comparison items and bullets of a token in SpecLabels
MaxPieces == 3              \* pieces of a content-type header in SpecValidate
DaySpan == 9                \* the dates of SpecConvert cover DaySpan + 1 consecutive days
MaxFrames == 2              \* timeframes in a list passed to checkTimeframeResolution in SpecResolution
FleetCalls == 2             \* _get calls the callers make in SpecFleet
MaxHours == 169             \* 'now n-H' is measured for n in 1..MaxHours in SpecResolution
IdleMs == 6000              \* the caller waits 0 or IdleMs milliseconds between calls
Epoch == 1000000            \* Date.now() when the instance is constructed

\* ---- program constants ----
DefaultRequestDelay == 5    \* requestDelay = 5.0 (seconds)
WarmupPauseMs == 2000       \* setTimeout(resolve, 2000) in _initSession
BackoffBase == 5            \* Math.pow(2, ...) * 5

NoStatus == 0               \* a raised error that carries no response
\* one send attempt as seen by the retry loop: session.get either returns a
\* response or raises an error (which may carry a response)
Outcomes ==
    LET Statuses == {200, 302, 401, 403, 429, 500}
    IN  [mode : {"returned"}, status : Statuses]
            \cup [mode : {"raised"}, status : (Statuses \ {200}) \cup {NoStatus}]

RECURSIVE Pow2(_)
Pow2(n) == IF n <= 0 THEN 1 ELSE 2 * Pow2(n - 1)

Max(a, b) == IF a >= b THEN a ELSE b

\* Math.min(...set)
SetMin(S) == CHOOSE x \in S : \A y \in S : x <= y

Count429(codes) == Cardinality({i \in 1..Len(codes) : codes[i] = 429})

\* ---- errors the client throws ----
RequestExhausted == [name |-> "Error", message |-> "Failed after maxRetries retries"]
TransportError(o) == [name |-> "AxiosError", message |-> "request failed", status |-> o.status]
NoError == [name |-> "none", message |-> ""]


\* ---- request encoder (_encodeItems, _encodeRequest) ----
Undefined == "undefined"

\* Doubled that repeats the list to exactly maxLen elements (index-wrapped)
RepeatedTo(arr, maxLen) == [i \in 1..maxLen |-> arr[((i - 1) % Len(arr)) + 1]]

\* while (arr.length < maxLen) arr.push(...arr)
RECURSIVE Doubled(_, _)
Doubled(arr, maxLen) == IF Len(arr) < maxLen THEN Doubled(arr \o arr, maxLen) ELSE arr

\* Combinable that asks only that no list is empty
CombinableIfNonEmpty(lengths) == \A k \in 1..3 : lengths[k] # 0

\* lengths.every(len => maxLen % len === 0); x % 0 is NaN, which is not 0
Combinable(lengths) ==
    LET maxLen == Max(lengths[1], Max(lengths[2], lengths[3]))
    IN  \A k \in 1..3 : lengths[k] # 0 /\ maxLen % lengths[k] = 0

\* _encodeItems(keywords, timeframe, geo), for inputs that are Combinable
EncodeItems(keywords, timeframe, geo) ==
    LET At(arr, i) == IF i <= Len(arr) THEN arr[i] ELSE Undefined
    IN  LET maxLen == Max(Len(keywords), Max(Len(timeframe), Len(geo)))
            d0 == Doubled(keywords, maxLen)
            d1 == Doubled(timeframe, maxLen)
            d2 == Doubled(geo, maxLen)
        IN  [i \in 1..Len(d0) |-> [keyword |-> d0[i], time |-> At(d1, i), geo |-> At(d2, i)]]

\* this._defaultParams = { hl: this.language, tz: this.tzs }
DefaultParams == [hl |-> "en", tz |-> "360"]

\* _encodeRequest(params): the query parameters of the explore request
EncodeRequest(keywords, timeframe, geo) ==
    [req |-> {<<"comparisonItem", EncodeItems(keywords, timeframe, geo)>>,
              <<"category", "0">>, <<"property", "">>},
     token |-> Undefined, hl |-> DefaultParams.hl, tz |-> DefaultParams.tz]

\* ---- timeframes as the client's utils module sees them ----
\* a timeframe string, by its shape:
\*   [form |-> "all"]                                   'all'
\*   [form |-> "now",   n, unit]                         'now <n>-<H|d>'
\*   [form |-> "today", n, unit]                         'today <n>-<m|y>'
\*   [form |-> "dates", from, to]                        '<YYYY-MM-DD> <YYYY-MM-DD>'
\*   [form |-> "offset", from, n, unit]                  '<YYYY-MM-DD> <n>-<m|y>'
Date(y, m, d) == [y |-> y, m |-> m, d |-> d]
\* days since 1970-01-01 of a calendar date (proleptic Gregorian)
DaysFromCivil(date) ==
    LET y == IF date.m <= 2 THEN date.y - 1 ELSE date.y
        era == y \div 400
        yoe == y - era * 400
        mp == IF date.m > 2 THEN date.m - 3 ELSE date.m + 9
        doy == (153 * mp + 2) \div 5 + date.d - 1
        doe == yoe * 365 + yoe \div 4 - yoe \div 100 + doy
    IN  era * 146097 + doe - 719468

\* utils.convertTimeframe(timeframe)
UtilsConvertTimeframe(tf) ==
    LET \* what utils.convertTimeframe makes of 'now <n>-<H|d>': an hour-precision range
        TfHours(n, u) == [form |-> "hours", n |-> n, unit |-> u, from |-> Date(0, 0, 0), to |-> Date(0, 0, 0)]
    IN  IF tf.form = "now" THEN TfHours(tf.n, tf.unit) ELSE tf

NaN == -1

\* utils.checkTimeframeResolution: getResolution(frame), in minutes
GetResolution(frame) ==
    LET \* getResolution's minutes: dates[1].diff(dates[0], 'minutes').minutes; the
        \* hour-precision endpoints are not ISO once 'T' is replaced by ' ' (NaN)
        RangeMinutes(range) ==
            IF range.form = "dates"
            THEN (DaysFromCivil(range.to) - DaysFromCivil(range.from)) * 1440
            ELSE NaN
    IN  IF frame.form = "all" THEN 43200
        ELSE IF frame.form = "today" THEN 1440
        ELSE LET minutes == RangeMinutes(frame)
             IN  IF minutes = NaN THEN 43200
                 ELSE IF minutes < 300 THEN 1
                 ELSE IF minutes < 2160 THEN 8
                 ELSE IF minutes < 4320 THEN 16
                 ELSE IF minutes < 11520 THEN 60
                 ELSE IF minutes < 388800 THEN 1440
                 ELSE IF minutes < 2736000 THEN 10080
                 ELSE 43200

\* utils.checkTimeframeResolution(timeframes) returns without throwing
SameResolution(timeframes) ==
    LET frames == [i \in 1..Len(timeframes) |-> UtilsConvertTimeframe(timeframes[i])]
    IN  Len(frames) <= 1
            \/ \A i, j \in 1..Len(frames) : GetResolution(frames[i]) = GetResolution(frames[j])

\* ---- widget tokens and the explore response ----
OverQuota == "USER_TYPE_EMBED_OVER_QUOTA"
NoBullets == [present |-> FALSE, text |-> <<>>]
Bullets(text) == [present |-> TRUE, text |-> text]

Token(type, tok, userType, bullets) ==
    LET \* token.request: its fields that the client reads or overrides
        WidgetRequest(user, resolution) ==
            [userType |-> user, resolution |-> resolution,
             includeLowSearchVolumeGeos |-> Undefined]
    IN  [type |-> type, token |-> tok, request |-> WidgetRequest(userType, "CITY"),
         bullets |-> bullets]

NoToken == Token(Undefined, Undefined, Undefined, NoBullets)

\* the tokens the explore endpoint may embed in its response
Tokens ==
    LET LegitUser == "USER_TYPE_LEGIT_USER"
        TokenTypes == {"fe_line_chart", "fe_multi_range_chart", "fe_multi_heat_map",
                       "fe_geo_chart_explore", "fe_related_searches", "fe_other"}
    IN  {Token(ty, "tokA", LegitUser, NoBullets) : ty \in TokenTypes}
            \cup {Token("fe_related_searches", "tokB", OverQuota, NoBullets),
                  Token("fe_geo_chart_explore", "tokB", OverQuota, NoBullets),
                  Token("fe_line_chart", "tokB", Undefined, Bullets(<<"entity">>))}

\* urlMap[token.type]
UrlMap(type) ==
    CASE type = "fe_line_chart" -> "widgetdata/multiline"
      [] type = "fe_multi_range_chart" -> "widgetdata/multirange"
      [] type = "fe_multi_heat_map" -> "widgetdata/comparedgeo"
      [] type = "fe_geo_chart_explore" -> "widgetdata/comparedgeo"
      [] type = "fe_related_searches" -> "widgetdata/relatedsearches"
      [] OTHER -> Undefined

\* Merge with the spread order swapped: a field the token defines wins
MergeRequestWins(request, requestFix) ==
    [f \in DOMAIN request |->
        IF request[f] # Undefined THEN request[f] ELSE requestFix[f]]

\* { ...token.request, ...requestFix }: a field the fix defines wins
Merge(request, requestFix) ==
    [f \in DOMAIN request |->
        IF f \in DOMAIN requestFix THEN requestFix[f] ELSE request[f]]

\* JSON.stringify(token.request): fields whose value is undefined are dropped
Stringify(request) ==
    {<<f, request[f]>> : f \in {g \in DOMAIN request : request[g] # Undefined}}

\* ---- protected JSON (_parseProtectedJson) ----
\* A body is the sequence of its lines (String.split on newline); a line is a
\* sequence of JSON tokens.  JSON values here: 1, [], [value].
RECURSIVE Flatten(_)
Flatten(lines) == IF lines = <<>> THEN <<>> ELSE Head(lines) \o Flatten(Tail(lines))

RECURSIVE IsJson(_)
IsJson(text) ==
    \/ text = <<"1">>
    \/ /\ Len(text) >= 2
       /\ text[1] = "[" /\ text[Len(text)] = "]"
       /\ (Len(text) = 2 \/ IsJson(SubSeq(text, 2, Len(text) - 1)))

\* JSON.parse(text) for text that IsJson: nesting depth and innermost element
RECURSIVE JsonParse(_)
JsonParse(text) ==
    IF text = <<"1">> THEN [depth |-> 0, leaf |-> "1"]
    ELSE IF Len(text) = 2 THEN [depth |-> 1, leaf |-> "none"]
    ELSE LET v == JsonParse(SubSeq(text, 2, Len(text) - 1))
         IN  [depth |-> v.depth + 1, leaf |-> v.leaf]

NoValue == [depth |-> -1, leaf |-> Undefined]

\* ---- more errors ----
SingleKeywordOnly == [name |-> "Error", message |-> "This endpoint only supports a single keyword"]
AmbiguousCombinationSize == [name |-> "Error", message |-> "Ambiguous input sizes"]
DifferentResolutions == [name |-> "Error", message |-> "All timeframes must have the same resolution"]
QuotaExceeded == [name |-> "TrendsQuotaExceededError", message |-> "API quota exceeded"]
InvalidResponse == [name |-> "Error", message |-> "Invalid response"]
FailedToParse == [name |-> "Error", message |-> "Failed to parse JSON data"]
NullDereference == [name |-> "TypeError", message |-> "Cannot read properties of null"]
BadLiteralSyntax == [name |-> "SyntaxError", message |-> "Unexpected token in JSON"]
ResponseFormatErrors == {InvalidResponse, FailedToParse}

\* ---- the content-type header ----
\* .split(';')[0]
RECURSIVE BeforeSemicolon(_)
BeforeSemicolon(header) ==
    IF header = <<>> \/ Head(header) = ";" THEN <<>>
    ELSE <<Head(header)>> \o BeforeSemicolon(Tail(header))

RECURSIVE TrimStart(_)
TrimStart(header) ==
    IF header # <<>> /\ Head(header) = " " THEN TrimStart(Tail(header)) ELSE header

RECURSIVE TrimEnd(_)
TrimEnd(header) ==
    IF header # <<>> /\ header[Len(header)] = " "
    THEN TrimEnd(SubSeq(header, 1, Len(header) - 1)) ELSE header

\* .trim()
Trim(header) == TrimEnd(TrimStart(header))

\* .toLowerCase()
ToLowerCase(header) ==
    LET \* String.toLowerCase on one piece
        Lower(piece) ==
            CASE piece = "APPLICATION/JSON" -> "application/json"
              [] piece = "Text/JavaScript" -> "text/javascript"
              [] OTHER -> piece
    IN  [i \in 1..Len(header) |-> Lower(header[i])]

\* the pieces as one string
RECURSIVE Join(_)
Join(pieces) == IF pieces = <<>> THEN "" ELSE Head(pieces) \o Join(Tail(pieces))

\* ContentType that compares the type as written, without toLowerCase
ContentTypeAsWritten(header) == Join(Trim(BeforeSemicolon(header)))

\* (response.headers['content-type'] || '').split(';')[0].trim().toLowerCase()
ContentType(header) == Join(ToLowerCase(Trim(BeforeSemicolon(header))))

\* static _parseProtectedJson(response): the value returned or the error thrown
ParseProtectedJson(resp) ==
    LET ValidContentTypes == {"application/json", "application/javascript", "text/javascript"}
    IN  IF resp.status # 200 \/ ContentType(resp.header) \notin ValidContentTypes
        THEN [ok |-> FALSE, error |-> InvalidResponse, value |-> NoValue]
        ELSE LET jsonData == resp.lines[Len(resp.lines)]
             IN  IF resp.isString /\ IsJson(jsonData)
                 THEN [ok |-> TRUE, error |-> NoError, value |-> JsonParse(jsonData)]
                 ELSE [ok |-> FALSE, error |-> FailedToParse, value |-> NoValue]


VARIABLES
    maxRetries,         \* this.maxRetries
    requestDelay,       \* this.requestDelay (seconds)
    useEntityNames,     \* this.useEntityNames
    clock,              \* Date.now()
    lastRequestTimes,   \* this.lastRequestTimes (a Set)
    cookieJar,          \* TRUE iff cookieJar.store.idx['trends.google.com'] exists
    pc,                 \* control point of the running call
    retries,            \* _get: let retries
    responseCodes,      \* _get: const responseCodes
    minTime,            \* _get: const minTime (while the throttle sleeps)
    sleepTime,          \* _get: const sleepTime (while the throttle sleeps)
    waitTime,           \* _get: const waitTime (while the backoff sleeps)
    response,           \* the response _get returned to its caller
    op,                 \* the public operation in progress and its options
    phase,              \* 0: plain dispatch, 1: explore, 2: widget data
    token,              \* _getTokenData: const token (after the request fix)
    opResult,           \* outcome of the last finished call
    calls,              \* number of calls started
    clients,            \* SpecFleet: the state of each Trends object
    gets,               \* SpecFleet: the _get calls in progress on them
    \* history variables (observations, not program state)
    sent,               \* url and query parameters of the current dispatch
    explored,           \* the explore response the token was taken from
    phase2Count,        \* _tokenToData dispatches started by the current call
    attempts,           \* outcomes of the send attempts of the current dispatch
    waits,              \* backoff waits (seconds) of the current dispatch
    sendTimes,          \* timestamps written by the throttle, oldest first (last 3)
    netCount,           \* network requests issued by the current call
    faults,             \* send attempts so far that did not yield 200
    warmup,             \* requests _initSession made for the current dispatch, in order
    dispatch            \* "none" | "active" | "returned" | "threw"

configVars == <<maxRetries, requestDelay, useEntityNames>>
fleetVars == <<clients, gets>>
throttleVars == <<lastRequestTimes, minTime, sleepTime>>
loopVars == <<retries, responseCodes, waitTime>>
opVars == <<op, phase, token, sent, explored, phase2Count>>
vars == <<maxRetries, requestDelay, useEntityNames, clock, lastRequestTimes, cookieJar, pc,
          retries, responseCodes, minTime, sleepTime, waitTime, response,
          op, phase, token, opResult, calls, sent, explored, phase2Count,
          attempts, waits, sendTimes, netCount, faults, dispatch, clients, gets, warmup>>

\* ---- what the environment may answer ----
HtmlBody(literal, tk) ==
    [literal |-> literal, token |-> tk, header |-> <<"text/html">>, lines |-> <<>>,
     isString |-> TRUE]
JsonBody(header, lines) ==
    LET \* response.data as the axios session delivers it (axios.create without
        \* responseType or transformResponse): a body that is JSON as a whole arrives
        \* parsed, any other body arrives as the string it is
        IsString(data) == ~IsJson(Flatten(data))
    IN  [literal |-> "none", token |-> NoToken, header |-> header, lines |-> lines,
         isString |-> IsString(lines)]
NoBody == HtmlBody("none", NoToken)

Preamble == <<"x">>
BodiesFor(ph) ==
    LET FetchBodies ==
            {JsonBody(h, ls) : h \in {<<"application/json", ";", " ", "charset=utf-8">>, <<"text/html">>},
                                ls \in {<<Preamble, <<"[", "1", "]">>>>, <<Preamble, <<"1">>, <<>>>>}}
        ExploreBodies ==
            {HtmlBody("none", NoToken), HtmlBody("bad", NoToken)}
                \cup {HtmlBody("token", tk) : tk \in Tokens}
    IN  IF ph = 1 THEN ExploreBodies ELSE IF ph = 2 THEN FetchBodies ELSE {NoBody}

NoResponse == [status |-> NoStatus, body |-> NoBody]
Ok(value) == [ok |-> TRUE, error |-> NoError, value |-> value]
Failed(error) == [ok |-> FALSE, error |-> error, value |-> NoValue]

NoFix == [resolution |-> Undefined, includeLowSearchVolumeGeos |-> Undefined]
NoOp == [name |-> "none", raiseQuotaError |-> FALSE, fix |-> FALSE, requestFix |-> NoFix]
NoSent == [url |-> Undefined,
           params |-> [req |-> {}, token |-> Undefined, hl |-> Undefined, tz |-> Undefined]]

\* constructor(options)
Init ==
    /\ maxRetries \in 1..MaxRetriesBound
    /\ requestDelay \in {0, DefaultRequestDelay}
    /\ useEntityNames = FALSE
    /\ clock = Epoch
    /\ lastRequestTimes = {0, 1}
    /\ cookieJar = FALSE
    /\ pc = "idle"
    /\ retries = 0
    /\ responseCodes = <<>>
    /\ minTime = 0
    /\ sleepTime = 0
    /\ waitTime = 0
    /\ response = NoResponse
    /\ op = NoOp
    /\ phase = 0
    /\ token = NoToken
    /\ opResult = Ok(NoValue)
    /\ calls = 0
    /\ sent = NoSent
    /\ explored = NoResponse
    /\ phase2Count = 0
    /\ attempts = <<>>
    /\ waits = <<>>
    /\ sendTimes = <<>>
    /\ netCount = 0
    /\ faults = 0
    /\ dispatch = "none"
    /\ clients = <<>>
    /\ gets = <<>>
    /\ warmup = <<>>

\* the last three timestamps the throttle recorded
Remember(seq, t) ==
    LET s == Append(seq, t) IN IF Len(s) > 3 THEN Tail(s) ELSE s

\* _get(url, params), from its entry to its first suspension
GetEntry(url, params) ==
    /\ sent' = [url |-> url, params |-> params]
    /\ retries' = maxRetries
    /\ responseCodes' = <<>>
    /\ attempts' = <<>>
    /\ waits' = <<>>
    /\ dispatch' = "active"
    /\ warmup' = <<>>
    /\ pc' = IF cookieJar THEN "loop" ELSE "init_landing"

\* a call starts: the caller's locals of the previous call are gone
StartCall(idle) ==
    /\ pc = "idle"
    /\ calls < MaxCalls
    /\ calls' = calls + 1
    /\ clock' = clock + idle
    /\ netCount' = 0
    /\ phase2Count' = 0
    /\ response' = NoResponse
    /\ explored' = NoResponse
    /\ token' = NoToken
    /\ UNCHANGED <<configVars, fleetVars, throttleVars, cookieJar, waitTime, sendTimes, faults>>

\* ThrowEarly whose error does not stop the call: the dispatch starts anyway
ThrowButDispatch(error) ==
    /\ pc' = IF cookieJar THEN "loop" ELSE "init_landing"
    /\ opResult' = Failed(error)
    /\ dispatch' = "active"
    /\ retries' = maxRetries
    /\ UNCHANGED <<responseCodes, sent, attempts, waits, warmup>>

\* a call ends by throwing before it dispatched anything
ThrowEarly(error) ==
    /\ pc' = "idle"
    /\ opResult' = Failed(error)
    /\ dispatch' = "none"
    /\ UNCHANGED <<retries, responseCodes, sent, attempts, waits, warmup>>

\* trendingNowByRss(options): _get(REALTIME_RSS, { geo })
CallRss(idle) ==
    /\ StartCall(idle)
    /\ op' = [NoOp EXCEPT !.name = "trendingNowByRss"]
    /\ phase' = 0
    /\ opResult' = Ok(NoValue)
    /\ GetEntry("trending/rss", NoSent.params)

EmbedUrl(name) ==
    CASE name = "interestOverTime" -> "embed/explore/TIMESERIES"
      [] name = "relatedQueries" -> "embed/explore/RELATED_QUERIES"
      [] name = "relatedTopics" -> "embed/explore/RELATED_TOPICS"
      [] name = "interestByRegion" -> "embed/explore/GEO_MAP"

SingleKeywordOps == {"relatedQueries", "relatedTopics"}

\* interestByRegion: resolution || ((!geo || geo === '') ? 'COUNTRY' : 'REGION')
RegionFix(geo, incLowVol) ==
    [resolution |-> IF geo = <<"">> THEN "COUNTRY" ELSE "REGION",
     includeLowSearchVolumeGeos |-> incLowVol]

\* the error a call throws before it dispatches anything (NoError: none):
\* checkTimeframeResolution in interestOverTime, the single-keyword check of
\* relatedQueries / relatedTopics, then _encodeItems within _encodeRequest
ValidationError(name, keywords, timeframe, geo) ==
    IF name = "interestOverTime" /\ ~SameResolution(timeframe)
    THEN DifferentResolutions
    ELSE IF name \in SingleKeywordOps /\ Len(keywords) # 1
    THEN SingleKeywordOnly
    ELSE IF ~Combinable(<<Len(keywords), Len(timeframe), Len(geo)>>)
    THEN AmbiguousCombinationSize
    ELSE NoError

\* interestOverTime / relatedQueries / relatedTopics / interestByRegion, up to
\* the first suspension of _getTokenData: timeframe check, _encodeRequest, _get
CallOp(name, keywords, timeframe, geo, incLowVol, idle) ==
    /\ StartCall(idle)
    /\ op' = [name |-> name,
              raiseQuotaError |-> (name \in SingleKeywordOps),
              fix |-> (name = "interestByRegion"),
              requestFix |-> IF name = "interestByRegion"
                             THEN RegionFix(geo, incLowVol) ELSE NoFix]
    /\ LET error == ValidationError(name, keywords, timeframe, geo)
       IN  IF error # NoError
           THEN ThrowEarly(error) /\ phase' = 0
           ELSE /\ phase' = 1
                /\ opResult' = Ok(NoValue)
                /\ GetEntry(EmbedUrl(name),
                            EncodeRequest(keywords,
                                IF name = "interestOverTime"
                                THEN [i \in 1..Len(timeframe) |-> UtilsConvertTimeframe(timeframe[i])]
                                ELSE timeframe,
                                geo))

\* InitLanding that goes on to the explore page after a failed request too
InitLandingThenExplore(ok, setsCookie) ==
    /\ pc = "init_landing"
    /\ netCount' = netCount + 1
    /\ cookieJar' = (cookieJar \/ (ok /\ setsCookie))
    /\ clock' = clock + LatencyMs + WarmupPauseMs
    /\ pc' = "init_explore"
    /\ warmup' = Append(warmup, [page |-> "landing", ok |-> ok])
    /\ UNCHANGED <<configVars, fleetVars, throttleVars, loopVars, opVars, response, opResult,
                   calls, attempts, waits, sendTimes, faults, dispatch>>

\* _initSession: session.get('https://trends.google.com/'), then the 2 s pause
InitLanding(ok, setsCookie) ==
    /\ pc = "init_landing"
    /\ netCount' = netCount + 1
    /\ cookieJar' = (cookieJar \/ (ok /\ setsCookie))
    /\ clock' = clock + LatencyMs + (IF ok THEN WarmupPauseMs ELSE 0)
    /\ pc' = IF ok THEN "init_explore" ELSE "loop"
    /\ warmup' = Append(warmup, [page |-> "landing", ok |-> ok])
    /\ UNCHANGED <<configVars, fleetVars, throttleVars, loopVars, opVars, response, opResult,
                   calls, attempts, waits, sendTimes, faults, dispatch>>

\* _initSession: session.get('https://trends.google.com/trends/explore')
InitExplore(ok, setsCookie) ==
    /\ pc = "init_explore"
    /\ netCount' = netCount + 1
    /\ cookieJar' = (cookieJar \/ (ok /\ setsCookie))
    /\ clock' = clock + LatencyMs
    /\ pc' = "loop"
    /\ warmup' = Append(warmup, [page |-> "explore", ok |-> ok])
    /\ UNCHANGED <<configVars, fleetVars, throttleVars, loopVars, opVars, response, opResult,
                   calls, attempts, waits, sendTimes, faults, dispatch>>

\* ReplaceOldest that keeps the oldest timestamp
AddNewest(times, oldest, now) == times \cup {now}

\* new Set([...lastRequestTimes].filter(t => t !== minTime), Date.now())
ReplaceOldest(times, oldest, now) == (times \ {oldest}) \cup {now}

\* SleepTime with the delay left in seconds
SleepTimeInSeconds(delay, now, oldest) == Max(0, delay - (now - oldest))

\* Math.max(0, this.requestDelay * 1000 - (Date.now() - minTime))
SleepTime(delay, now, oldest) == Max(0, delay * 1000 - (now - oldest))

\* _get: loop guard and throttle, up to the sleep (if any)
Throttle ==
    /\ pc = "loop"
    /\ retries > 0
    /\ IF requestDelay = 0
       THEN /\ pc' = "send"
            /\ UNCHANGED <<lastRequestTimes, minTime, sleepTime, sendTimes>>
       ELSE LET m == SetMin(lastRequestTimes)
                s == SleepTime(requestDelay, clock, m)
            IN  IF s > 0
                THEN /\ pc' = "sleeping"
                     /\ minTime' = m
                     /\ sleepTime' = s
                     /\ UNCHANGED <<lastRequestTimes, sendTimes>>
                ELSE /\ pc' = "send"
                     /\ lastRequestTimes' = ReplaceOldest(lastRequestTimes, m, clock)
                     /\ sendTimes' = Remember(sendTimes, clock)
                     /\ UNCHANGED <<minTime, sleepTime>>
    /\ UNCHANGED <<configVars, fleetVars, warmup, clock, cookieJar, loopVars, opVars, response, opResult,
                   calls, attempts, waits, netCount, faults, dispatch>>

\* _get: the throttle's setTimeout fires; the oldest timestamp is replaced
Wake ==
    /\ pc = "sleeping"
    /\ clock' = clock + sleepTime
    /\ lastRequestTimes' = ReplaceOldest(lastRequestTimes, minTime, clock')
    /\ sendTimes' = Remember(sendTimes, clock')
    /\ minTime' = 0
    /\ sleepTime' = 0
    /\ pc' = "send"
    /\ UNCHANGED <<configVars, fleetVars, warmup, cookieJar, loopVars, opVars, response, opResult,
                   calls, attempts, waits, netCount, faults, dispatch>>

\* [429, 302].includes(response.status)
IsRateLimit(status) == status \in {429, 302}

\* IsAuthFailure that does not count 403
IsUnauthorized(status) == status = 401

\* error.response?.status === 401 || error.response?.status === 403
IsAuthFailure(status) == status \in {401, 403}

\* _get: session.get settles; the try body after the await, or the catch branch
Send(o, body) ==
    LET \* Math.pow(2, this.maxRetries - retries) * 5
        BackoffSeconds(max, left) == Pow2(max - left) * BackoffBase
        \* an error raised without a response never reached the server
        Latency(outcome) == IF outcome.status = NoStatus THEN 0 ELSE LatencyMs
    IN  /\ pc = "send"
        /\ o.status # 200 => faults < MaxFaults
        /\ faults' = IF o.status = 200 THEN faults ELSE faults + 1
        /\ clock' = clock + Latency(o)
        /\ netCount' = netCount + 1
        /\ attempts' = Append(attempts, o)
        /\ IF o.mode = "returned"
           THEN /\ responseCodes' = Append(responseCodes, o.status)
                /\ IF o.status = 200
                   THEN /\ pc' = "resume"
                        /\ response' = [status |-> o.status, body |-> body]
                        /\ dispatch' = "returned"
                        /\ UNCHANGED <<retries, waitTime, opResult>>
                   ELSE IF IsRateLimit(o.status)
                   THEN /\ pc' = "backoff"
                        /\ waitTime' = BackoffSeconds(maxRetries, retries)
                        /\ UNCHANGED <<retries, response, opResult, dispatch>>
                   ELSE /\ pc' = "loop"
                        /\ retries' = retries - 1
                        /\ UNCHANGED <<waitTime, response, opResult, dispatch>>
           ELSE /\ UNCHANGED <<responseCodes, waitTime, response>>
                /\ IF retries = 0
                   THEN /\ pc' = "idle"
                        /\ opResult' = Failed(TransportError(o))
                        /\ dispatch' = "threw"
                        /\ UNCHANGED retries
                   ELSE /\ retries' = retries - 1
                        /\ pc' = IF IsAuthFailure(o.status) THEN "init_landing" ELSE "loop"
                        /\ UNCHANGED <<opResult, dispatch>>
        /\ UNCHANGED <<configVars, fleetVars, warmup, throttleVars, cookieJar, opVars, calls, waits, sendTimes>>

\* Backoff without the retries-- that follows the wait
BackoffKeepsRetry ==
    /\ pc = "backoff"
    /\ clock' = clock + waitTime * 1000
    /\ waits' = Append(waits, waitTime)
    /\ waitTime' = 0
    /\ pc' = "loop"
    /\ UNCHANGED <<configVars, fleetVars, warmup, throttleVars, cookieJar, retries, responseCodes, opVars,
                   response, opResult, calls, attempts, sendTimes, netCount, faults, dispatch>>

\* _get: the backoff setTimeout fires, then retries--
Backoff ==
    /\ pc = "backoff"
    /\ clock' = clock + waitTime * 1000
    /\ waits' = Append(waits, waitTime)
    /\ waitTime' = 0
    /\ retries' = retries - 1
    /\ pc' = "loop"
    /\ UNCHANGED <<configVars, fleetVars, warmup, throttleVars, cookieJar, responseCodes, opVars, response,
                   opResult, calls, attempts, sendTimes, netCount, faults, dispatch>>

\* _get: the loop ends with no retries left; throw new Error('Failed after ...')
Exhaust ==
    /\ pc = "loop"
    /\ retries <= 0
    /\ pc' = "idle"
    /\ opResult' = Failed(RequestExhausted)
    /\ dispatch' = "threw"
    /\ UNCHANGED <<configVars, fleetVars, warmup, clock, throttleVars, cookieJar, loopVars, opVars, response,
                   calls, attempts, waits, sendTimes, netCount, faults>>

\* trendingNowByRss: return response.data
ResumeRss ==
    /\ pc = "resume"
    /\ phase = 0
    /\ pc' = "idle"
    /\ opResult' = Ok(NoValue)
    /\ UNCHANGED <<configVars, fleetVars, warmup, clock, throttleVars, cookieJar, loopVars, opVars, response,
                   calls, attempts, waits, sendTimes, netCount, faults, dispatch>>

\* _extractEmbeddedData(text): the token, or null when the pattern does not match
ExtractEmbeddedData(body) == IF body.literal = "token" THEN body.token ELSE NoToken

\* token.request = { ...token.request, ...requestFix }
Fixed(tk, o) == IF o.fix THEN [tk EXCEPT !.request = Merge(tk.request, o.requestFix)] ELSE tk

\* TokenParams that sends the widget type where the token string belongs
TokenParamsWrongField(tk) ==
    [req |-> Stringify(tk.request), token |-> tk.type,
     hl |-> DefaultParams.hl, tz |-> DefaultParams.tz]

\* _tokenToData(token): the parameters of the widget-data request
TokenParams(tk) ==
    [req |-> Stringify(tk.request), token |-> tk.token,
     hl |-> DefaultParams.hl, tz |-> DefaultParams.tz]

\* QuotaCheckFails that reads the user type from the token instead of its request
QuotaCheckOnToken(o, tk) == o.raiseQuotaError /\ tk.type = OverQuota

\* raiseQuotaError && token?.request?.userConfig?.userType === "USER_TYPE_EMBED_OVER_QUOTA"
QuotaCheckFails(o, tk) == o.raiseQuotaError /\ tk.request.userType = OverQuota

\* _getTokenData after the explore dispatch returned: extract the token, apply
\* the request fix, check the quota, then _tokenToData up to its dispatch
ResumeExplore ==
    /\ pc = "resume"
    /\ phase = 1
    /\ explored' = response
    /\ IF response.body.literal = "bad"
       THEN /\ pc' = "idle"
            /\ opResult' = Failed(BadLiteralSyntax)
            /\ UNCHANGED <<retries, responseCodes, phase, token, sent, phase2Count,
                           attempts, waits, dispatch, warmup>>
       ELSE IF response.body.literal = "none"
       THEN /\ pc' = "idle"
            /\ opResult' = Failed(NullDereference)
            /\ UNCHANGED <<retries, responseCodes, phase, token, sent, phase2Count,
                           attempts, waits, dispatch, warmup>>
       ELSE LET tk == Fixed(ExtractEmbeddedData(response.body), op)
            IN  /\ token' = tk
                /\ IF QuotaCheckFails(op, tk)
                   THEN /\ pc' = "idle"
                        /\ opResult' = Failed(QuotaExceeded)
                        /\ UNCHANGED <<retries, responseCodes, phase, sent, phase2Count,
                                       attempts, waits, dispatch, warmup>>
                   ELSE /\ phase' = 2
                        /\ phase2Count' = phase2Count + 1
                        /\ GetEntry(UrlMap(tk.type), TokenParams(tk))
                        /\ UNCHANGED opResult
    /\ UNCHANGED <<configVars, fleetVars, clock, throttleVars, cookieJar, waitTime, op, response,
                   calls, sendTimes, netCount, faults>>

\* _tokenToData after the widget-data dispatch returned: _parseProtectedJson
ResumeFetch ==
    /\ pc = "resume"
    /\ phase = 2
    /\ pc' = "idle"
    /\ opResult' = ParseProtectedJson([status |-> response.status,
                                       header |-> response.body.header,
                                       isString |-> response.body.isString,
                                       lines |-> response.body.lines])
    /\ UNCHANGED <<configVars, fleetVars, warmup, clock, throttleVars, cookieJar, loopVars, opVars, response,
                   calls, attempts, waits, sendTimes, netCount, faults, dispatch>>

Transport ==
    \/ \E ok \in BOOLEAN, sc \in BOOLEAN : InitLanding(ok, sc)
    \/ \E ok \in BOOLEAN, sc \in BOOLEAN : InitExplore(ok, sc)
    \/ Throttle
    \/ Wake
    \/ Backoff
    \/ Exhaust

\* ---- serialized use of one instance through plain dispatches ----
Next ==
    LET Idles == {0, IdleMs}
    IN  \/ \E idle \in Idles : CallRss(idle)
        \/ Transport
        \/ \E o \in Outcomes : Send(o, NoBody)
        \/ ResumeRss

Spec == Init /\ [][Next]_vars

\* ---- the token-based operations ----
Arguments ==
    LET LastYear ==
            LET TfToday(n, u) == [form |-> "today", n |-> n, unit |-> u, from |-> Date(0, 0, 0), to |-> Date(0, 0, 0)]
            IN  TfToday(12, "m")
        \* the arguments the caller passes: keyword, timeframe and geo lists
        Args(keywords, timeframe, geo) == [keywords |-> keywords, timeframe |-> timeframe, geo |-> geo]
        TfDates(a, b) == [form |-> "dates", n |-> 0, unit |-> "", from |-> a, to |-> b]
        TfNow(n, u) == [form |-> "now", n |-> n, unit |-> u, from |-> Date(0, 0, 0), to |-> Date(0, 0, 0)]
        TfAll == [form |-> "all", n |-> 0, unit |-> "", from |-> Date(0, 0, 0), to |-> Date(0, 0, 0)]
        \* '<YYYY-MM-DD> <n>-<m|y>'
        TfOffset(a, n, u) == [form |-> "offset", n |-> n, unit |-> u, from |-> a, to |-> Date(0, 0, 0)]
    IN  {Args(<<"a">>, <<LastYear>>, <<"">>),
         Args(<<"a">>, <<TfOffset(Date(2024, 9, 12), 1, "m")>>, <<"">>),
         Args(<<"a", "b">>, <<LastYear>>, <<"US", "GB">>),
         Args(<<"a", "b", "c">>, <<LastYear>>, <<"US", "GB">>),
         Args(<<"a", "b">>, <<LastYear, TfAll>>, <<"">>),
         Args(<<"a">>, <<TfNow(1, "d"), TfAll>>, <<"US", "GB">>),
         Args(<<"a", "b">>,
              <<TfDates(Date(2024, 1, 1), Date(2024, 1, 3)), TfDates(Date(2024, 2, 28), Date(2024, 3, 1))>>,
              <<"">>)}

InitProtocol == Init /\ maxRetries <= 2 /\ requestDelay = DefaultRequestDelay

\* Send while the environment's fault budget of this specification lasts
SendWithin(o, body) ==
    /\ o.status # 200 => faults < ProtocolFaults
    /\ Send(o, body)

\* the caller makes ProtocolCalls calls of any kind, and after them only calls
\* that fail validation
CallWithin(name, keywords, timeframe, geo) ==
    /\ calls < ProtocolCalls \/ ValidationError(name, keywords, timeframe, geo) # NoError
    /\ CallOp(name, keywords, timeframe, geo, "false", 0)

NextProtocol ==
    LET TokenOps == {"interestOverTime", "relatedQueries", "relatedTopics", "interestByRegion"}
        \* what the environment answers in this specification
        ProtocolOutcomes ==
            {[mode |-> "returned", status |-> 200], [mode |-> "returned", status |-> 429],
             [mode |-> "raised", status |-> 401], [mode |-> "raised", status |-> NoStatus]}
    IN  \/ \E name \in TokenOps, a \in Arguments :
                CallWithin(name, a.keywords, a.timeframe, a.geo)
        \/ Transport
        \/ \E o \in ProtocolOutcomes :
                \E body \in (IF o.status = 200 THEN BodiesFor(phase) ELSE {NoBody}) : SendWithin(o, body)
        \/ ResumeExplore
        \/ ResumeFetch

SpecProtocol == InitProtocol /\ [][NextProtocol]_vars

\* ---- _parseProtectedJson as a function of the response ----
\* a fresh instance in one of the given modes, about to apply the method at
\* control point 'at' to the given input (a response, a token, or the
\* arguments of a call)
Input(resp, tk, o) == [response |-> resp, token |-> tk, op |-> o]
InitFreshOn(at, modes, input) ==
    /\ maxRetries = 1
    /\ requestDelay = DefaultRequestDelay
    /\ useEntityNames \in modes
    /\ clock = Epoch
    /\ lastRequestTimes = {0, 1}
    /\ cookieJar = FALSE
    /\ pc = at
    /\ retries = 0
    /\ responseCodes = <<>>
    /\ minTime = 0
    /\ sleepTime = 0
    /\ waitTime = 0
    /\ response = input.response
    /\ op = input.op
    /\ phase = 0
    /\ token = input.token
    /\ opResult = Ok(NoValue)
    /\ calls = 0
    /\ sent = NoSent
    /\ explored = NoResponse
    /\ phase2Count = 0
    /\ attempts = <<>>
    /\ waits = <<>>
    /\ sendTimes = <<>>
    /\ netCount = 0
    /\ faults = 0
    /\ dispatch = "none"
    /\ clients = <<>>
    /\ gets = <<>>
    /\ warmup = <<>>

InitFresh(at, modes, inputs) == \E input \in inputs : InitFreshOn(at, modes, input)

\* a response handed to _parseProtectedJson
InitResponse(responses) ==
    InitFresh("parse", {FALSE}, {Input(r, NoToken, NoOp) : r \in responses})

InitParse ==
    LET ProtectedBodies ==
            LET LineSet == {<<>>, Preamble, <<"1">>, <<"[">>, <<"]">>, <<"[", "1", "]">>}
            IN  UNION {[1..n -> LineSet] : n \in 1..MaxLines}
    IN  InitResponse({[status |-> 200, body |-> JsonBody(<<"application/json">>, ls)] :
                            ls \in ProtectedBodies})

\* Trends._parseProtectedJson(response)
ParseStep ==
    /\ pc = "parse"
    /\ pc' = "parsed"
    /\ opResult' = ParseProtectedJson([status |-> response.status,
                                       header |-> response.body.header,
                                       isString |-> response.body.isString,
                                       lines |-> response.body.lines])
    /\ UNCHANGED <<configVars, fleetVars, warmup, clock, throttleVars, cookieJar, loopVars, opVars, response,
                   calls, attempts, waits, sendTimes, netCount, faults, dispatch>>

NextParse == ParseStep

SpecParse == InitParse /\ [][NextParse]_vars

\* ---- _parseProtectedJson as a function of status and content-type header ----
InitValidate ==
    LET Headers ==
            LET \* A header value is the sequence of its pieces: media types and parameters
                \* as written, blanks and semicolons.  No header at all reads as ''.
                NoHeader == <<>>
            IN  LET HeaderPieces == {" ", ";", "application/json", "APPLICATION/JSON", "Text/JavaScript",
                                     "application/javascript", "text/html", "charset=utf-8"}
                IN  {NoHeader} \cup UNION {[1..n -> HeaderPieces] : n \in 1..MaxPieces}
    IN  InitResponse({[status |-> st, body |-> JsonBody(h, ls)] :
                            st \in {200, 204, 404}, h \in Headers,
                            ls \in {<<Preamble, <<"1">>>>, <<Preamble, Preamble>>}})

NextValidate == ParseStep

SpecValidate == InitValidate /\ [][NextValidate]_vars

\* ---- _extractKeywordsFromToken as a function of the mode and the token ----
UndefinedDereference == [name |-> "TypeError", message |-> "Cannot read properties of undefined"]

\* _extractKeywordsFromToken(token): the labels returned or the error thrown
ExtractKeywordsFromToken(entityNames, tk) ==
    IF entityNames
    THEN IF tk.bullets.present
         THEN [ok |-> TRUE, error |-> NoError, value |-> tk.bullets.text]
         ELSE [ok |-> FALSE, error |-> UndefinedDereference, value |-> <<>>]
    ELSE [ok |-> TRUE, error |-> NoError,
          value |-> [i \in 1..Len(tk.request.comparisonItem) |->
                        tk.request.comparisonItem[i].complexKeywordsRestriction.keyword[1].value]]

InitLabels ==
    LET ChartTokens ==
            LET \* a line-chart token: its comparison items and its bullets (if any)
                ChartToken(keywords, bullets) ==
                    LET \* one element of token.request.comparisonItem
                        ComparisonItem(keyword) ==
                            [complexKeywordsRestriction |-> [keyword |-> <<[type |-> "BROAD", value |-> keyword]>>]]
                    IN  [type |-> "fe_line_chart", token |-> "tokA", bullets |-> bullets,
                         request |-> [comparisonItem |-> [i \in 1..Len(keywords) |-> ComparisonItem(keywords[i])]]]
            IN  LET Texts == {"a", "b", "/m/05z1_"}
                    TextLists(least) == UNION {[1..n -> Texts] : n \in least..MaxLabels}
                IN  {ChartToken(kw, bl) : kw \in TextLists(1),
                                          bl \in {NoBullets} \cup {Bullets(t) : t \in TextLists(0)}}
    IN  InitFresh("labels", BOOLEAN, {Input(NoResponse, tk, NoOp) : tk \in ChartTokens})

\* interestOverTime: this._extractKeywordsFromToken(token)
LabelStep ==
    /\ pc = "labels"
    /\ pc' = "labelled"
    /\ opResult' = ExtractKeywordsFromToken(useEntityNames, token)
    /\ UNCHANGED <<configVars, fleetVars, warmup, clock, throttleVars, cookieJar, loopVars, opVars, response,
                   calls, attempts, waits, sendTimes, netCount, faults, dispatch>>

NextLabels == LabelStep

SpecLabels == InitLabels /\ [][NextLabels]_vars

\* ---- _encodeItems as a function of its three arguments ----
\* Array.isArray(item) ? item : [item]
Coerced(arg) == IF arg.isArray THEN arg.items ELSE <<arg.value>>

\* data after data.forEach(...): the three lists, each doubled up to maxLen
AlignedLists(keywords, timeframe, geo) ==
    LET maxLen == Max(Len(keywords), Max(Len(timeframe), Len(geo)))
    IN  <<Doubled(keywords, maxLen), Doubled(timeframe, maxLen), Doubled(geo, maxLen)>>

\* Array.isArray(item) ? item : [item]: an array argument is itself the list
\* that data.forEach extends, a scalar argument is wrapped in a new list; the
\* argument as its owner finds it once the list has become 'list'
Passed(arg, list) == IF arg.isArray THEN [arg EXCEPT !.items = list] ELSE arg

\* _encodeItems(keywords, timeframe, geo) on arguments as passed: the items
\* returned (with the final lists) or the error thrown, and the three
\* arguments as the call leaves them
EncodeItemsResult(keywords, timeframe, geo) ==
    LET data == <<Coerced(keywords), Coerced(timeframe), Coerced(geo)>>
    IN  IF ~Combinable(<<Len(data[1]), Len(data[2]), Len(data[3])>>)
        THEN [ok |-> FALSE, error |-> AmbiguousCombinationSize, value |-> <<>>,
              data |-> data,
              args |-> <<Passed(keywords, data[1]), Passed(timeframe, data[2]), Passed(geo, data[3])>>]
        ELSE LET aligned == AlignedLists(data[1], data[2], data[3])
             IN  [ok |-> TRUE, error |-> NoError,
                  value |-> EncodeItems(data[1], data[2], data[3]),
                  data |-> aligned,
                  args |-> <<Passed(keywords, aligned[1]), Passed(timeframe, aligned[2]),
                             Passed(geo, aligned[3])>>]

InitEncode ==
    LET \* the arguments: a scalar, or an array of 0..MaxItems distinct elements
        ArgumentValues ==
            LET Array(items) == [isArray |-> TRUE, value |-> Undefined, items |-> items]
            IN  LET \* an argument is a scalar or an array
                    Scalar(v) == [isArray |-> FALSE, value |-> v, items |-> <<>>]
                IN  LET ElementNames == <<"e1", "e2", "e3", "e4", "e5">>
                    IN  {Scalar("e1")} \cup {Array(SubSeq(ElementNames, 1, n)) : n \in 0..MaxItems}
        EncodeCall(keywords, timeframe, geo) ==
            [name |-> "_encodeItems", keywords |-> keywords, timeframe |-> timeframe, geo |-> geo]
    IN  InitFresh("encode", {FALSE},
                  {Input(NoResponse, NoToken, EncodeCall(kw, tf, geo)) :
                        kw \in ArgumentValues, tf \in ArgumentValues, geo \in ArgumentValues})

\* this._encodeItems(params.keywords, params.timeframe, params.geo)
EncodeStep ==
    /\ pc = "encode"
    /\ pc' = "encoded"
    /\ opResult' = EncodeItemsResult(op.keywords, op.timeframe, op.geo)
    /\ UNCHANGED <<configVars, fleetVars, warmup, clock, throttleVars, cookieJar, loopVars, opVars, response,
                   calls, attempts, waits, sendTimes, netCount, faults, dispatch>>

NextEncode == EncodeStep

SpecEncode == InitEncode /\ [][NextEncode]_vars

\* ---- timeframe_utils: convertTimeframe as a function of its arguments ----
\* A timeframe string is the sequence of its space-separated parts.  A part
\* is a date (YYYY-MM-DD), a date with hour (YYYY-MM-DDTHH), an offset
\* (n-H, n-d, n-m, n-y) or a word (now, today, all, anything else).
DatePart(y, m, d) ==
    [kind |-> "date", y |-> y, m |-> m, d |-> d, h |-> 0, hasHour |-> FALSE,
     count |-> 0, unit |-> ""]
HourPart(y, m, d, h) ==
    [kind |-> "date", y |-> y, m |-> m, d |-> d, h |-> h, hasHour |-> TRUE,
     count |-> 0, unit |-> ""]
OffsetPart(n, u) ==
    [kind |-> "offset", y |-> 0, m |-> 0, d |-> 0, h |-> 0, hasHour |-> FALSE,
     count |-> n, unit |-> u]
Word(w) ==
    [kind |-> w, y |-> 0, m |-> 0, d |-> 0, h |-> 0, hasHour |-> FALSE,
     count |-> 0, unit |-> ""]

\* FIXED_TIMEFRAMES without 'now 1-H'
FixedTimeframesButLastHour ==
    {<<Word("now"), OffsetPart(4, "H")>>,
     <<Word("now"), OffsetPart(1, "d")>>, <<Word("now"), OffsetPart(7, "d")>>,
     <<Word("today"), OffsetPart(1, "m")>>, <<Word("today"), OffsetPart(3, "m")>>,
     <<Word("today"), OffsetPart(5, "y")>>, <<Word("today"), OffsetPart(12, "m")>>,
     <<Word("all")>>}

\* FIXED_TIMEFRAMES
FixedTimeframes ==
    {<<Word("now"), OffsetPart(1, "H")>>, <<Word("now"), OffsetPart(4, "H")>>,
     <<Word("now"), OffsetPart(1, "d")>>, <<Word("now"), OffsetPart(7, "d")>>,
     <<Word("today"), OffsetPart(1, "m")>>, <<Word("today"), OffsetPart(3, "m")>>,
     <<Word("today"), OffsetPart(5, "y")>>, <<Word("today"), OffsetPart(12, "m")>>,
     <<Word("all")>>}

\* isValidDate(dateStr): VALID_DATE_PATTERN
IsValidDate(part) == part.kind = "date"

\* isValidFormat(offsetStr): OFFSET_PATTERN
IsValidFormat(part) == part.kind = "offset"

\* A DateTime is its number of hours since 1970-01-01T00 (no zone shifts),
\* or the invalid DateTime that fromFormat gives for digits that are no
\* calendar date; every operation on the invalid DateTime gives it again.
InvalidDateTime == -100000000

\* the digits of a date part are a date of the calendar and an hour of the day
IsCalendarDate(part) ==
    LET IsLeapYear(y) == y % 4 = 0 /\ (y % 100 # 0 \/ y % 400 = 0)
    IN
    /\ part.m \in 1..12 /\ part.d \in 1..31 /\ part.h \in 0..23
    /\ (part.m \in {4, 6, 9, 11} => part.d <= 30)
    /\ (part.m = 2 => part.d <= (IF IsLeapYear(part.y) THEN 29 ELSE 28))

\* decodeTrendDatetime(dateStr): DateTime.fromFormat with the format the 'T'
\* selects
DecodeTrendDatetime(part) ==
    IF IsCalendarDate(part)
    THEN DaysFromCivil(part) * 24 + (IF part.hasHour THEN part.h ELSE 0)
    ELSE InvalidDateTime

\* the calendar date of a day number (inverse of DaysFromCivil)
CivilFromDays(z) ==
    LET zz == z + 719468
        era == zz \div 146097
        doe == zz - era * 146097
        yoe == (doe - doe \div 1460 + doe \div 36524 - doe \div 146096) \div 365
        doy == doe - (365 * yoe + yoe \div 4 - yoe \div 100)
        mp == (5 * doy + 2) \div 153
        d == doy - (153 * mp + 2) \div 5 + 1
        m == IF mp < 10 THEN mp + 3 ELSE mp - 9
    IN  [y |-> yoe + era * 400 + (IF m <= 2 THEN 1 ELSE 0), m |-> m, d |-> d]

\* dateTime.toFormat(DATE_T_FORMAT) or dateTime.toFormat(DATE_FORMAT)
ToFormat(dateTime, withHour) ==
    LET c == CivilFromDays(dateTime \div 24)
    IN  IF dateTime = InvalidDateTime THEN Word("Invalid DateTime")
        ELSE IF withHour THEN HourPart(c.y, c.m, c.d, dateTime % 24)
        ELSE DatePart(c.y, c.m, c.d)

\* dateTime.minus({ months: n }): the day is clamped to the month's length
MinusMonths(dateTime, n) ==
    LET c == CivilFromDays(dateTime \div 24)
        total == c.y * 12 + (c.m - 1) - n
        y == total \div 12
        m == (total % 12) + 1
        next == IF m = 12 THEN Date(y + 1, 1, 1) ELSE Date(y, m + 1, 1)
        last == DaysFromCivil(next) - DaysFromCivil(Date(y, m, 1))
        d == IF c.d > last THEN last ELSE c.d
    IN  DaysFromCivil(Date(y, m, d)) * 24 + (dateTime % 24)

\* dateTime.minus(duration) with duration[UNIT_MAP[unit]] = count
Minus(dateTime, count, unit) ==
    CASE dateTime = InvalidDateTime -> InvalidDateTime
      [] unit = "H" -> dateTime - count
      [] unit = "d" -> dateTime - 24 * count
      [] unit = "m" -> MinusMonths(dateTime, count)
      [] unit = "y" -> MinusMonths(dateTime, 12 * count)

\* PlusDay that adds nothing
SameDay(dateTime) == dateTime

\* dateTime.plus({ days: 1 })
PlusDay(dateTime) == IF dateTime = InvalidDateTime THEN InvalidDateTime ELSE dateTime + 24


\* ---- errors of convertTimeframe ----
DateDifferenceExceeds ==
    [name |-> "Error", message |-> "Date difference cannot exceed 7 days for format with hours"]
OffsetExceeds ==
    [name |-> "Error", message |-> "Offset cannot exceed 7 days for format with time"]
InvalidTimeframeFormat == [name |-> "Error", message |-> "Invalid timeframe format"]
CouldNotProcess == [name |-> "Error", message |-> "Could not process timeframe"]

Converted(parts) == [ok |-> TRUE, error |-> NoError, value |-> parts]
NotConverted(error) == [ok |-> FALSE, error |-> error, value |-> <<>>]

\* FartherThanWeek without Math.abs
LaterThanWeek(date1, date2) ==
    InvalidDateTime \notin {date1, date2} /\ date2 - date1 > 7 * 24

\* Math.abs(date2.diff(date1, 'days').days) > 7; the difference with an
\* invalid DateTime is NaN, which is not greater than 7
FartherThanWeek(date1, date2) ==
    LET Abs(x) == IF x < 0 THEN -x ELSE x
    IN  InvalidDateTime \notin {date1, date2} /\ Abs(date2 - date1) > 7 * 24

\* processTwoDates(datePart1, datePart2); startOf('day') leaves the midnight
\* that a date without hour decodes to
ProcessTwoDates(datePart1, datePart2) ==
    IF ~datePart1.hasHour /\ ~datePart2.hasHour
    THEN Converted(<<datePart1, datePart2>>)
    ELSE LET date1 == DecodeTrendDatetime(datePart1)
             date2 == DecodeTrendDatetime(datePart2)
         IN  IF FartherThanWeek(date1, date2)
             THEN NotConverted(DateDifferenceExceeds)
             ELSE Converted(<<ToFormat(date1, TRUE), ToFormat(date2, TRUE)>>)

\* OverWeek that also refuses an offset of exactly 7 days
WeekOrMore(count, unit) ==
    (unit = "d" /\ count >= 7) \/ (unit = "H" /\ count >= 7 * 24)

\* (unit === 'd' && count > 7) || (unit === 'H' && count > 7 * 24)
OverWeek(count, unit) ==
    (unit = "d" /\ count > 7) \/ (unit = "H" /\ count > 7 * 24)

\* processDateWithOffset(datePart1, offsetPart)
ProcessDateWithOffset(datePart1, offsetPart) ==
    LET date1 == DecodeTrendDatetime(datePart1)
        count == offsetPart.count
        unit == offsetPart.unit
    IN  IF unit \in {"m", "y"}
        THEN LET minus == Minus(date1, count, unit)
                 date2 == IF unit = "m" THEN PlusDay(minus) ELSE minus
             IN  Converted(<<ToFormat(date2, datePart1.hasHour),
                             ToFormat(date1, datePart1.hasHour)>>)
        ELSE IF datePart1.hasHour /\ OverWeek(count, unit)
        THEN NotConverted(OffsetExceeds)
        ELSE Converted(<<ToFormat(Minus(date1, count, unit), datePart1.hasHour),
                         ToFormat(date1, datePart1.hasHour)>>)

\* String.replace(word, by): the first occurrence only
RECURSIVE ReplaceFirst(_, _, _)
ReplaceFirst(parts, word, by) ==
    IF parts = <<>> THEN <<>>
    ELSE IF Head(parts).kind = word THEN <<by>> \o Tail(parts)
    ELSE <<Head(parts)>> \o ReplaceFirst(Tail(parts), word, by)

\* convertTimeframe(timeframe, convertFixedTimeframesToDates) at the instant
\* utcNow = DateTime.now().setZone('utc')
ConvertTimeframe(timeframe, convertFixedTimeframesToDates, utcNow) ==
    IF timeframe \in FixedTimeframes /\ ~convertFixedTimeframesToDates
    THEN Converted(timeframe)
    ELSE IF convertFixedTimeframesToDates /\ timeframe = <<Word("all")>>
    THEN Converted(<<DatePart(2024, 1, 1), ToFormat(utcNow, FALSE)>>)
    ELSE LET parts == ReplaceFirst(ReplaceFirst(timeframe, "now", ToFormat(utcNow, TRUE)),
                                   "today", ToFormat(utcNow, FALSE))
         IN  IF Len(parts) # 2 THEN NotConverted(InvalidTimeframeFormat)
             ELSE IF IsValidDate(parts[1]) /\ IsValidDate(parts[2])
             THEN ProcessTwoDates(parts[1], parts[2])
             ELSE IF IsValidDate(parts[1]) /\ IsValidFormat(parts[2])
             THEN ProcessDateWithOffset(parts[1], parts[2])
             ELSE NotConverted(CouldNotProcess)

InitConvert ==
    LET \* the arguments: dates of DaySpan + 1 consecutive days across the end of
        \* February 2024, two month ends and 2024-03-15, each without hour and with three hours;
        \* the digits 2024-02-30, which are no date; offsets below, at and above one
        \* week in every unit
        Timeframes ==
            LET FirstDay == DaysFromCivil(Date(2024, 2, 25))
                Hours == {0, 14, 23}
                PartsOfDay(c) == {DatePart(c.y, c.m, c.d)} \cup {HourPart(c.y, c.m, c.d, h) : h \in Hours}
                RangeDates == UNION {PartsOfDay(CivilFromDays(z)) : z \in FirstDay..(FirstDay + DaySpan)}
                MonthEnds == PartsOfDay(Date(2024, 3, 31)) \cup PartsOfDay(Date(2023, 12, 31))
                                \cup PartsOfDay(Date(2024, 3, 15))
                NoDates == PartsOfDay(Date(2024, 2, 30))
                Counts == {0, 1, 7, 8, 24, 168, 169}
                Units == {"H", "d", "m", "y"}
                Offsets == {OffsetPart(n, u) : n \in Counts, u \in Units}
                Anchors == RangeDates \cup MonthEnds \cup NoDates \cup {Word("now"), Word("today")}
            IN
            FixedTimeframes
            \cup {<<a, o>> : a \in Anchors, o \in Offsets}
            \cup {<<a, b>> : a \in RangeDates, b \in RangeDates}
            \cup {<<a, b>> : a \in NoDates, b \in MonthEnds}
            \cup {<<a>> : a \in MonthEnds}
            \cup {<<a, o, o>> : a \in MonthEnds, o \in {OffsetPart(1, "d")}}
            \cup {<<a, w>> : a \in MonthEnds \cup {Word("now")}, w \in {Word("invalid"), Word("all")}}
            \cup {<<o, a>> : o \in {OffsetPart(1, "d")}, a \in MonthEnds}
        ConvertCall(timeframe, convertFixed, utcNow) ==
            [name |-> "convertTimeframe", timeframe |-> timeframe, convertFixed |-> convertFixed,
             utcNow |-> utcNow]
    IN  InitFresh("convert", {FALSE},
                  {Input(NoResponse, NoToken, ConvertCall(tf, fixed, now)) :
                        tf \in Timeframes, fixed \in BOOLEAN,
                        now \in {HourPart(2024, 3, 1, 0), HourPart(2024, 9, 12, 23)}})

\* convertTimeframe(timeframe, convertFixedTimeframesToDates)
ConvertStep ==
    /\ pc = "convert"
    /\ pc' = "converted"
    /\ opResult' = ConvertTimeframe(op.timeframe, op.convertFixed, DecodeTrendDatetime(op.utcNow))
    /\ UNCHANGED <<configVars, fleetVars, warmup, clock, throttleVars, cookieJar, loopVars, opVars, response,
                   calls, attempts, waits, sendTimes, netCount, faults, dispatch>>

NextConvert == ConvertStep

SpecConvert == InitConvert /\ [][NextConvert]_vars

\* ---- timeframe_utils: durations and resolutions ----
\* A Duration is its number of hours; the difference of an invalid DateTime
\* is the invalid Duration, written InvalidDateTime as well.
\* date2.diff(date1) taken the other way round
DiffReversed(date1, date2) ==
    IF InvalidDateTime \in {date1, date2} THEN InvalidDateTime ELSE date1 - date2

\* date2.diff(date1)
Diff(date1, date2) ==
    IF InvalidDateTime \in {date1, date2} THEN InvalidDateTime ELSE date2 - date1

\* timeframeToDuration after its call of convertTimeframe: result.split(' ')
\* .map(decodeTrendDatetime) and date2.diff(date1), or the error thrown by the
\* call; 'Invalid DateTime Invalid DateTime' splits into words that decode to
\* invalid DateTimes
DiffOfParts(result) ==
    IF ~result.ok THEN result
    ELSE Converted(Diff(DecodeTrendDatetime(result.value[1]),
                        DecodeTrendDatetime(result.value[2])))

\* timeframeToDuration(timeframe)
TimeframeToDuration(timeframe, utcNow) ==
    DiffOfParts(ConvertTimeframe(timeframe, TRUE, utcNow))

\* Buckets with the 8-day threshold taken inclusively on the lower side
BucketsWeekInclusive(hours) ==
    IF hours = InvalidDateTime THEN <<"1 month", "delta >= 1900 days">>
    ELSE IF hours < 5 THEN <<"1 minute", "delta < 5 hours">>
    ELSE IF hours < 36 THEN <<"8 minutes", "5 hours <= delta < 36 hours">>
    ELSE IF hours < 72 THEN <<"16 minutes", "36 hours <= delta < 72 hours">>
    ELSE IF hours <= 24 * 8 THEN <<"1 hour", "72 hours <= delta < 8 days">>
    ELSE IF hours < 24 * 270 THEN <<"1 day", "8 days <= delta < 270 days">>
    ELSE IF hours < 24 * 1900 THEN <<"1 week", "270 days <= delta < 1900 days">>
    ELSE <<"1 month", "delta >= 1900 days">>

\* getResolutionAndRange: the if chain over duration.as('hours'); every
\* comparison with the NaN of an invalid Duration is false
Buckets(hours) ==
    IF hours = InvalidDateTime THEN <<"1 month", "delta >= 1900 days">>
    ELSE IF hours < 5 THEN <<"1 minute", "delta < 5 hours">>
    ELSE IF hours < 36 THEN <<"8 minutes", "5 hours <= delta < 36 hours">>
    ELSE IF hours < 72 THEN <<"16 minutes", "36 hours <= delta < 72 hours">>
    ELSE IF hours < 24 * 8 THEN <<"1 hour", "72 hours <= delta < 8 days">>
    ELSE IF hours < 24 * 270 THEN <<"1 day", "8 days <= delta < 270 days">>
    ELSE IF hours < 24 * 1900 THEN <<"1 week", "270 days <= delta < 1900 days">>
    ELSE <<"1 month", "delta >= 1900 days">>

\* getResolutionAndRange(timeframe), given what its call of
\* timeframeToDuration(timeframe) returned or threw
GetResolutionAndRange(duration) ==
    IF ~duration.ok THEN duration ELSE Converted(Buckets(duration.value))

DifferentResolutionsDetected ==
    [name |-> "Error", message |-> "Error: Different resolutions detected for the timeframes"]
MaximumDeltaTooLarge ==
    [name |-> "Error",
     message |-> "Error: The maximum delta should be less than twice the minimum delta"]

\* TwiceOrMore that accepts a maximum of exactly twice the minimum
MoreThanTwice(maxDuration, minDuration) ==
    InvalidDateTime \notin {maxDuration, minDuration} /\ maxDuration > minDuration * 2

\* maxDuration.as('milliseconds') >= minDuration.as('milliseconds') * 2
TwiceOrMore(maxDuration, minDuration) ==
    InvalidDateTime \notin {maxDuration, minDuration} /\ maxDuration >= minDuration * 2

\* durations.reduce((best, curr, i) => better(curr, best[0]) ? [curr, ...] : best,
\*                  [durations[0], ...]): the duration the reduce ends with
RECURSIVE Reduce(_, _, _)
Reduce(durations, best, greater) ==
    IF durations = <<>> THEN best
    ELSE LET curr == Head(durations)
             better == /\ InvalidDateTime \notin {curr, best}
                       /\ IF greater THEN curr > best ELSE curr < best
         IN  Reduce(Tail(durations), IF better THEN curr ELSE best, greater)

\* checkTimeframeResolution after timeframeToDuration was called for every
\* element (getResolutionAndRange calls it, and the second map calls it again
\* with the same outcome): the first error thrown in
\* timeframes.map(getResolutionAndRange), else the comparison of the
\* resolutions, else the reduces over the durations and their comparison.
\* value holds what the two functions returned for each element.
CheckMapped(measured) ==
    LET n == Len(measured)
        resolutions == [i \in 1..n |-> GetResolutionAndRange(measured[i])]
        durations == [i \in 1..n |-> measured[i].value]
        failing == {i \in 1..n : ~resolutions[i].ok}
        outcome ==
            IF failing # {} THEN resolutions[SetMin(failing)]
            ELSE IF Cardinality({resolutions[i].value[1] : i \in 1..n}) > 1
            THEN NotConverted(DifferentResolutionsDetected)
            ELSE IF n = 0 THEN NotConverted(UndefinedDereference)
            ELSE IF TwiceOrMore(Reduce(durations, durations[1], TRUE),
                                Reduce(durations, durations[1], FALSE))
            THEN NotConverted(MaximumDeltaTooLarge)
            ELSE Converted(<<>>)
    IN  [outcome EXCEPT !.value = [durations |-> measured, resolutions |-> resolutions]]

\* checkTimeframeResolution(timeframes) for a list of timeframes (ensureList
\* makes a single timeframe a list of one)
CheckTimeframeResolution(timeframes, utcNow) ==
    CheckMapped([i \in 1..Len(timeframes) |-> TimeframeToDuration(timeframes[i], utcNow)])

InitResolution ==
    LET \* the timeframes of the resolution calls: the offsets next to every threshold
        \* of getResolutionAndRange, some ranges of dates, the fixed timeframes and
        \* timeframes that convertTimeframe refuses; lists of up to MaxFrames of them,
        \* and single 'now n-H' for every n up to MaxHours
        FrameLists ==
            LET day == DatePart(2024, 3, 15)
                hour == HourPart(2024, 3, 15, 14)
                Frames ==
                    {<<hour, OffsetPart(n, "H")>> : n \in {0, 2, 4, 5, 9, 10, 35, 36, 71, 72}}
                    \cup {<<day, OffsetPart(n, "d")>> : n \in {7, 8, 269, 270, 1899, 1900}}
                    \cup {<<hour, HourPart(2024, 3, 15, 4)>>, <<hour, OffsetPart(8, "d")>>,
                          <<day, Word("invalid")>>, <<Word("now"), OffsetPart(4, "H")>>,
                          <<Word("today"), OffsetPart(1, "m")>>, <<Word("all")>>,
                          <<DatePart(2024, 2, 30), day>>}
            IN  UNION {[1..n -> Frames] : n \in 0..MaxFrames}
                    \cup {<<<<Word("now"), OffsetPart(n, "H")>>>> : n \in 1..MaxHours}
        ResolutionCall(timeframes, utcNow) ==
            [name |-> "checkTimeframeResolution", timeframes |-> timeframes, utcNow |-> utcNow]
    IN  InitFresh("resolve", {FALSE},
                  {Input(NoResponse, NoToken, ResolutionCall(tfs, now)) :
                        tfs \in FrameLists,
                        now \in {HourPart(2024, 3, 1, 0), HourPart(2024, 9, 12, 23)}})

\* a call of checkTimeframeResolution(timeframes)
ResolutionStep ==
    /\ pc = "resolve"
    /\ pc' = "resolved"
    /\ opResult' = CheckTimeframeResolution(op.timeframes, DecodeTrendDatetime(op.utcNow))
    /\ UNCHANGED <<configVars, fleetVars, warmup, clock, throttleVars, cookieJar, loopVars, opVars, response,
                   calls, attempts, waits, sendTimes, netCount, faults, dispatch>>

NextResolution == ResolutionStep

SpecResolution == InitResolution /\ [][NextResolution]_vars

\* ======================= properties =======================
Last(seq) == seq[Len(seq)]
NoneIs200(att) == \A i \in 1..Len(att) : att[i].status # 200

\* C1: a dispatch makes at most maxRetries send attempts; it returns the
\* response of the first attempt that yields 200 and attempts nothing after
\* it; if no attempt yields 200 it throws RequestExhausted after exactly
\* maxRetries attempts.
C1_DispatchBounded ==
    /\ Len(attempts) <= maxRetries
    /\ \A i \in 1..(Len(attempts) - 1) : attempts[i].status # 200
    /\ dispatch = "active" => NoneIs200(attempts)
    /\ dispatch = "returned" =>
            /\ attempts # <<>>
            /\ Last(attempts) = [mode |-> "returned", status |-> 200]
            /\ response.status = 200
    /\ dispatch = "threw" =>
            /\ opResult = Failed(RequestExhausted)
            /\ Len(attempts) = maxRetries
            /\ NoneIs200(attempts)

C1_Witness ==
    /\ dispatch = "threw"
    /\ maxRetries >= 2
    /\ Len(attempts) = maxRetries
    /\ \E i \in 1..Len(attempts) : attempts[i].mode = "raised"
    /\ \E i \in 1..Len(attempts) : IsRateLimit(attempts[i].status) /\ attempts[i].mode = "returned"

\* the backoff waits the claim C2 expects after the given attempts:
\* 5 x 2^i seconds after every attempt of 0-based index i that got 429 or 302
RECURSIVE ExpectedWaits(_)
ExpectedWaits(att) ==
    IF att = <<>> THEN <<>>
    ELSE LET before == ExpectedWaits(SubSeq(att, 1, Len(att) - 1))
         IN  IF IsRateLimit(Last(att).status)
             THEN Append(before, BackoffBase * Pow2(Len(att) - 1))
             ELSE before

\* C2 (as claimed): every attempt of 0-based index i that gets 429 or 302 is
\* followed by a backoff wait of 5 x 2^i seconds, so the waits of a dispatch
\* (the one in progress included) are exactly the expected ones, in order.
C2_BackoffOnRateLimit ==
    dispatch # "none" =>
        (IF pc = "backoff" THEN Append(waits, waitTime) ELSE waits) = ExpectedWaits(attempts)

C5_QuotaStopsPhase2 ==
    (op.raiseQuotaError /\ explored.body.literal = "token"
        /\ explored.body.token.request.userType = OverQuota) =>
            /\ pc = "idle"
            /\ opResult = Failed(QuotaExceeded)
            /\ phase2Count = 0
            /\ phase = 1

C5_Witness ==
    /\ op.name = "relatedTopics"
    /\ opResult = Failed(QuotaExceeded)
    /\ explored.body.token.request.userType = OverQuota
    /\ netCount >= 1

ValidationErrors == {SingleKeywordOnly, AmbiguousCombinationSize, DifferentResolutions}

\* C6: a validation failure (single-keyword violation, lists that cannot be
\* combined, timeframes of different resolution) ends the call before any
\* network request of that call, warm-up included, and the step that raises
\* it leaves the cookie store and the rate-limiter timestamps unchanged.
C6_ValidationBeforeNetwork ==
    /\ [](opResult.error \in ValidationErrors =>
            (netCount = 0 /\ pc = "idle" /\ dispatch = "none"))
    /\ [][opResult'.error \in ValidationErrors =>
            (cookieJar' = cookieJar /\ lastRequestTimes' = lastRequestTimes
                /\ sendTimes' = sendTimes)]_vars

C6_Witness ==
    /\ opResult = Failed(DifferentResolutions)
    /\ op.name = "interestOverTime"
    /\ calls = 2
    /\ netCount = 0
    /\ cookieJar
    /\ lastRequestTimes \cap {0, 1} = {}

IsTransportError(o) ==
    o.mode = "raised" /\ ~IsRateLimit(o.status) /\ ~IsAuthFailure(o.status)

\* C7 (as claimed): when the attempt that uses up the last retry fails with a
\* transport error (raised, neither 429/302 nor 401/403), the dispatch throws
\* that error and not RequestExhausted.
C7_LastTransportErrorSurfaces ==
    (dispatch = "threw" /\ attempts # <<>> /\ IsTransportError(Last(attempts))) =>
        opResult = Failed(TransportError(Last(attempts)))

\* the status codes a dispatch observed, one per attempt that carried a
\* response, in attempt order
RECURSIVE ObservedCodes(_)
ObservedCodes(att) ==
    IF att = <<>> THEN <<>>
    ELSE IF Head(att).status = NoStatus THEN ObservedCodes(Tail(att))
    ELSE <<Head(att).status>> \o ObservedCodes(Tail(att))

\* C8 (as claimed): when a dispatch throws RequestExhausted, the status codes
\* it collected are all the codes observed on its attempts, in attempt order,
\* whether returned or raised.
C8_ExhaustedCarriesAllCodes ==
    (dispatch = "threw" /\ opResult = Failed(RequestExhausted)) =>
        responseCodes = ObservedCodes(attempts)

\* C9 (as claimed): an explore response without an embedded literal makes the
\* call fail with ResponseFormatError, and no widget-data request is
\* dispatched.
C9_NoLiteralIsFormatError ==
    (explored.status = 200 /\ explored.body.literal = "none") =>
        /\ opResult.error \in ResponseFormatErrors
        /\ phase2Count = 0

\* C10 (as claimed): the parser discards exactly the first line of the body
\* and returns the JSON parse of all remaining lines; it fails
\* ResponseFormatError only when that remainder is not JSON.
C10_DiscardsFirstLineOnly ==
    pc = "parsed" =>
        LET rest == Flatten(Tail(response.body.lines))
        IN  opResult = IF IsJson(rest) THEN Ok(JsonParse(rest)) ELSE Failed(FailedToParse)

\* the spellings of the three accepted media types
AcceptedSpellings ==
    {"application/json", "APPLICATION/JSON", "application/javascript",
     "text/javascript", "Text/JavaScript"}

\* the header names an accepted type: one accepted spelling, nothing but
\* blanks before it, and after it nothing but blanks up to the first
\* semicolon or the end
NamesAcceptedType(header) ==
    \E i \in 1..Len(header) :
        /\ header[i] \in AcceptedSpellings
        /\ \A j \in 1..(i - 1) : header[j] = " "
        /\ \E k \in (i + 1)..(Len(header) + 1) :
                /\ k <= Len(header) => header[k] = ";"
                /\ \A j \in (i + 1)..(k - 1) : header[j] = " "

\* C11: parsing fails with the invalid-response error, whatever the body, if
\* and only if the status is not 200 or the content type (before any ';',
\* trimmed, case-insensitive) is not one of the three accepted types.
C11_InvalidResponseIff ==
    pc = "parsed" =>
        ((opResult = Failed(InvalidResponse))
            <=> (response.status # 200 \/ ~NamesAcceptedType(response.body.header)))

C11_Witness ==
    /\ pc = "parsed"
    /\ response.status = 200
    /\ response.body.header = <<" ", "Text/JavaScript", ";">>
    /\ opResult = Ok(JsonParse(<<"1">>))

\* the fixed widget-data endpoints (the two geo kinds share one)
WidgetEndpoints ==
    {"widgetdata/multiline", "widgetdata/multirange", "widgetdata/comparedgeo",
     "widgetdata/relatedsearches"}

\* C12 (as claimed): every widget-data dispatch goes to one of the fixed
\* widget endpoints, the one its token's type selects; none goes to another
\* or to an undefined URL.
C12_FixedEndpoint ==
    phase = 2 => (sent.url \in WidgetEndpoints /\ sent.url = UrlMap(token.type))

\* C13: in the request serialized into the widget-data call every field the
\* caller overrides has the override's value and every other field has the
\* value the explore response gave it (an undefined field is not serialized).
C13_OverridesMerged ==
    phase = 2 =>
        LET original == explored.body.token.request
            expected(f) == IF op.fix /\ f \in DOMAIN op.requestFix
                           THEN op.requestFix[f] ELSE original[f]
        IN  /\ \A f \in DOMAIN original :
                    IF expected(f) = Undefined
                    THEN \A pair \in sent.params.req : pair[1] # f
                    ELSE \A pair \in sent.params.req : pair[1] = f <=> pair = <<f, expected(f)>>
            /\ \A f \in DOMAIN original :
                    expected(f) # Undefined => <<f, expected(f)>> \in sent.params.req
            /\ \A pair \in sent.params.req : pair[1] \in DOMAIN original

C13_Witness ==
    /\ phase = 2
    /\ pc = "send"
    /\ op.name = "interestByRegion"
    /\ explored.body.token.request.resolution = "CITY"
    /\ sent.params.req = {<<"resolution", "COUNTRY">>, <<"includeLowSearchVolumeGeos", "false">>,
                          <<"userType", OverQuota>>}

\* C14 (as claimed): the labels are the bullets' texts, in bullet order, when
\* the token carries bullets and the client is in entity-name mode; in every
\* other case they are the keywords of the token request's comparison items,
\* in item order.
C14_LabelsFromBulletsOrKeywords ==
    pc = "labelled" =>
        LET items == token.request.comparisonItem
            keywords == [i \in 1..Len(items) |-> items[i].complexKeywordsRestriction.keyword[1].value]
        IN  /\ opResult.ok
            /\ opResult.value = IF useEntityNames /\ token.bullets.present
                                THEN token.bullets.text ELSE keywords

\* the length an argument of _encodeItems counts with: 1 for a scalar
LengthOf(arg) == IF arg.isArray THEN Len(arg.items) ELSE 1

\* the maximum of the three lengths of the call in op
MaxLength == Max(LengthOf(op.keywords), Max(LengthOf(op.timeframe), LengthOf(op.geo)))

\* n divides m evenly: m / n is a whole number (nothing is divided by 0)
EvenlyDivides(n, m) == n # 0 /\ \E q \in 0..m : q * n = m

\* C15: _encodeItems throws the ambiguous-sizes error if and only if the
\* length of at least one of the three coerced lists does not evenly divide
\* the maximum of the three lengths.
C15_AmbiguousIff ==
    pc = "encoded" =>
        ((opResult.error = AmbiguousCombinationSize /\ ~opResult.ok)
            <=> \E arg \in {op.keywords, op.timeframe, op.geo} :
                    ~EvenlyDivides(LengthOf(arg), MaxLength))

C15_Witness ==
    /\ pc = "encoded"
    /\ <<LengthOf(op.keywords), LengthOf(op.timeframe), LengthOf(op.geo)>> = <<3, 1, 2>>
    /\ ~op.timeframe.isArray
    /\ opResult.error = AmbiguousCombinationSize

\* n x 2^k for the least k with n x 2^k >= m
LeastDoubling(n, m) ==
    LET k == CHOOSE j \in 0..m : n * Pow2(j) >= m /\ \A i \in 0..(j - 1) : n * Pow2(i) < m
    IN  n * Pow2(k)

IsPowerOfTwo(q) == \E j \in 0..q : Pow2(j) = q

\* C16: when alignment succeeds, a list of length n ends with length
\* n x 2^k for the least k with n x 2^k >= M, which is M exactly when M/n is a
\* power of two, and the number of items is the final length of the keyword
\* list.
C16_DoubledLengths ==
    (pc = "encoded" /\ opResult.ok) =>
        LET args == <<op.keywords, op.timeframe, op.geo>>
        IN  /\ \A k \in 1..3 :
                    /\ Len(opResult.data[k]) = LeastDoubling(LengthOf(args[k]), MaxLength)
                    /\ (Len(opResult.data[k]) = MaxLength
                            <=> IsPowerOfTwo(MaxLength \div LengthOf(args[k])))
            /\ Len(opResult.value) = Len(opResult.data[1])

C16_Witness ==
    /\ pc = "encoded"
    /\ opResult.ok
    /\ MaxLength = 3
    /\ LengthOf(op.keywords) = 1
    /\ Len(opResult.value) = 4
    /\ Len(opResult.data[2]) = 3

\* element i (from 1) of the list an argument stands for, taken cyclically
Cyclic(arg, i) == Coerced(arg)[((i - 1) % LengthOf(arg)) + 1]

\* C17 (as claimed): every item returned has a keyword, a timeframe and a geo
\* that are defined and are the elements at its own position of the aligned
\* lists, i.e. at index i mod n of the input list of length n.
C17_ItemsDefinedAndAligned ==
    (pc = "encoded" /\ opResult.ok) =>
        \A i \in 1..Len(opResult.value) :
            /\ opResult.value[i].keyword = Cyclic(op.keywords, i)
            /\ opResult.value[i].time = Cyclic(op.timeframe, i)
            /\ opResult.value[i].geo = Cyclic(op.geo, i)
            /\ Undefined \notin {opResult.value[i].keyword, opResult.value[i].time,
                                  opResult.value[i].geo}

\* ---- several Trends objects and overlapping _get calls ----
\* clients[c] is the state the constructor gives the c-th object and its
\* methods change; sends (the last three timestamps its throttle wrote) and
\* overlapped (two _get calls were in progress on it at once) are
\* observations.
Clients == 1..2
Gets == 1..2
NoProxy == "none"
\* StateOf with one Set, CookieJar and session shared by all objects
StateOfFirst(c) == 1

\* this.lastRequestTimes = new Set(...), this.cookieJar = new tough.CookieJar(),
\* this.session = wrapper(axios.create(...)): the state object c works on
StateOf(c) == c

\* the awaits in progress (_initSession, the throttle's setTimeout,
\* session.get); they settle in the order of their times
IsNext(g, at) ==
    /\ gets[g].pc = at
    /\ \A h \in Gets : gets[h].pc \in {"init", "sleeping", "send"} => gets[g].at <= gets[h].at

\* the throttle writes Date.now() over the timestamp it read as the oldest
Stamped(client, oldest, now) ==
    [client EXCEPT !.lastRequestTimes = ReplaceOldest(@, oldest, now),
                   !.sends = Remember(@, now)]

\* _get: one pass of while (retries > 0) from the loop guard to its next
\* await, or the throw that follows the loop
LoopBody(get, client, now) ==
    IF get.retries <= 0
    THEN [get |-> [get EXCEPT !.pc = "done"], client |-> client]
    ELSE IF requestDelay = 0
    THEN [get |-> [get EXCEPT !.pc = "send", !.at = now + LatencyMs], client |-> client]
    ELSE LET m == SetMin(client.lastRequestTimes)
             s == SleepTime(requestDelay, now, m)
         IN  IF s > 0
             THEN [get |-> [get EXCEPT !.pc = "sleeping", !.minTime = m, !.at = now + s],
                   client |-> client]
             ELSE [get |-> [get EXCEPT !.pc = "send", !.at = now + LatencyMs],
                   client |-> Stamped(client, m, now)]

\* the state after a step of _get call g on object c
Step(g, c, now, next) ==
    /\ clock' = now
    /\ gets' = [gets EXCEPT ![g] = next.get]
    /\ clients' = [clients EXCEPT ![StateOf(c)] = next.client]
    /\ UNCHANGED <<configVars, throttleVars, cookieJar, pc, loopVars, opVars, response,
                   opResult, calls, attempts, waits, sendTimes, netCount, faults, dispatch,
                   warmup>>

\* a caller invokes _get on object c, at the start or when some await has
\* just settled: the session check, then _initSession or the loop
GetEnter(g, c) ==
    /\ gets[g].pc \in {"idle", "done"}
    /\ gets[1].calls + gets[2].calls < FleetCalls
    /\ LET now == clock
           client == [clients[StateOf(c)] EXCEPT
                        !.overlapped = @ \/ \E h \in Gets \ {g} :
                            gets[h].on = c /\ gets[h].pc \notin {"idle", "done"}]
           get == [on |-> c, pc |-> "idle", retries |-> maxRetries, minTime |-> 0,
                   at |-> 0, calls |-> gets[g].calls + 1]
       IN  IF client.cookieJar
           THEN Step(g, c, now, LoopBody(get, client, now))
           ELSE Step(g, c, now,
                     [get |-> [get EXCEPT !.pc = "init",
                                          !.at = now + 2 * LatencyMs + WarmupPauseMs],
                      client |-> client])

\* _initSession returns (both requests and the pause are over); the loop starts
GetInit(g, setsCookie) ==
    /\ IsNext(g, "init")
    /\ LET c == gets[g].on
           client == [clients[StateOf(c)] EXCEPT !.cookieJar = @ \/ setsCookie]
       IN  Step(g, c, gets[g].at, LoopBody(gets[g], client, gets[g].at))

\* the throttle's setTimeout fires: the timestamp read before the sleep is
\* replaced by Date.now(), then session.get is called
GetWake(g) ==
    /\ IsNext(g, "sleeping")
    /\ LET c == gets[g].on
           now == gets[g].at
       IN  Step(g, c, now,
                [get |-> [gets[g] EXCEPT !.pc = "send", !.at = now + LatencyMs],
                 client |-> Stamped(clients[StateOf(c)], gets[g].minTime, now)])

\* session.get returns a response: 200 ends the call, 500 costs a retry
GetSettle(g, status) ==
    /\ IsNext(g, "send")
    /\ LET c == gets[g].on
           now == gets[g].at
       IN  IF status = 200
           THEN Step(g, c, now, [get |-> [gets[g] EXCEPT !.pc = "done"],
                                 client |-> clients[StateOf(c)]])
           ELSE Step(g, c, now,
                     LoopBody([gets[g] EXCEPT !.retries = @ - 1], clients[StateOf(c)], now))

\* the proxy the caller of object c configures
ProxyFor(c) == IF c = 1 THEN "http://proxy1:port" ELSE "http://proxy2:port"

\* setProxy(proxy): this.session.defaults.proxy = proxy
SetProxy(c, proxy) ==
    /\ clients[StateOf(c)].proxy # proxy
    /\ clients' = [clients EXCEPT ![StateOf(c)].proxy = proxy]
    /\ UNCHANGED <<configVars, clock, gets, throttleVars, cookieJar, pc, loopVars, opVars,
                   response, opResult, calls, attempts, waits, sendTimes, netCount, faults,
                   dispatch, warmup>>

\* two objects constructed with the same options, no call made yet
InitFleet ==
    LET FreshClient ==
            [lastRequestTimes |-> {0, 1}, cookieJar |-> FALSE, proxy |-> NoProxy,
             sends |-> <<>>, overlapped |-> FALSE]
        NoGet == [on |-> 0, pc |-> "idle", retries |-> 0, minTime |-> 0, at |-> 0, calls |-> 0]
    IN  /\ maxRetries = 3
        /\ requestDelay \in {0, DefaultRequestDelay}
        /\ useEntityNames = FALSE
        /\ clock = Epoch
        /\ clients = [c \in Clients |-> FreshClient]
        /\ gets = [g \in Gets |-> NoGet]
        /\ lastRequestTimes = {0, 1}
        /\ cookieJar = FALSE
        /\ pc = "fleet"
        /\ retries = 0
        /\ responseCodes = <<>>
        /\ minTime = 0
        /\ sleepTime = 0
        /\ waitTime = 0
        /\ response = NoResponse
        /\ op = NoOp
        /\ phase = 0
        /\ token = NoToken
        /\ opResult = Ok(NoValue)
        /\ calls = 0
        /\ sent = NoSent
        /\ explored = NoResponse
        /\ phase2Count = 0
        /\ attempts = <<>>
        /\ waits = <<>>
        /\ sendTimes = <<>>
        /\ netCount = 0
        /\ faults = 0
        /\ dispatch = "none"
        /\ warmup = <<>>

NextFleet ==
    \/ \E g \in Gets, c \in Clients : GetEnter(g, c)
    \/ \E g \in Gets, sc \in BOOLEAN : GetInit(g, sc)
    \/ \E g \in Gets : GetWake(g)
    \/ \E g \in Gets, status \in {200, 500} : GetSettle(g, status)
    \/ \E c \in Clients : SetProxy(c, ProxyFor(c))

SpecFleet == InitFleet /\ [][NextFleet]_vars

\* ---- properties of convertTimeframe (SpecConvert) ----
IsRange(value) ==
    /\ Len(value) = 2
    /\ \A i \in 1..2 : value[i].kind = "date" /\ IsCalendarDate(value[i])
HourOf(part) == IF part.hasHour THEN part.h ELSE 0
HoursBetween(from, to) ==
    (DaysFromCivil(to) * 24 + HourOf(to)) - (DaysFromCivil(from) * 24 + HourOf(from))

\* C18: every explicit range that convertTimeframe returns with hour-level
\* endpoints spans at most 7 days.
C18_HourRangesWithinWeek ==
    (pc = "converted" /\ opResult.ok /\ IsRange(opResult.value)
        /\ (opResult.value[1].hasHour \/ opResult.value[2].hasHour))
    => HoursBetween(opResult.value[1], opResult.value[2]) \in (-(7 * 24))..(7 * 24)

\* the part that stands for a part of the timeframe after the markers now
\* and today have been substituted
Substituted(part) ==
    CASE part.kind = "now" -> op.utcNow
      [] part.kind = "today" -> DatePart(op.utcNow.y, op.utcNow.m, op.utcNow.d)
      [] OTHER -> part
IsProcessed ==
    /\ pc = "converted"
    /\ Len(op.timeframe) = 2
    /\ ~(op.timeframe \in FixedTimeframes /\ ~op.convertFixed)
IsDate(part) == part.kind = "date" /\ IsCalendarDate(part)
IsWellFormed(part) ==
    /\ IsDate(part)
    /\ part = (IF part.hasHour THEN HourPart(part.y, part.m, part.d, part.h)
                ELSE DatePart(part.y, part.m, part.d))
OffsetInHours(offset) == IF offset.unit = "H" THEN offset.count ELSE 24 * offset.count
\* start is the instant of anchor minus hours, written at anchor's precision
IsEarlierBy(start, anchor, hours) ==
    /\ IsWellFormed(start)
    /\ start.hasHour = anchor.hasHour
    /\ IF anchor.hasHour
       THEN HoursBetween(start, anchor) = hours
       ELSE DaysFromCivil(start) = (DaysFromCivil(anchor) * 24 - hours) \div 24

C20_TwoDates ==
    (IsProcessed /\ IsDate(Substituted(op.timeframe[1])) /\ IsDate(Substituted(op.timeframe[2])))
    => LET date1 == Substituted(op.timeframe[1])
           date2 == Substituted(op.timeframe[2])
           apart == HoursBetween(date1, date2)
       IN  IF ~date1.hasHour /\ ~date2.hasHour
           THEN opResult = Converted(<<date1, date2>>)
           ELSE IF apart > 7 * 24 \/ apart < -(7 * 24)
           THEN ~opResult.ok /\ opResult.error = DateDifferenceExceeds
           ELSE opResult = Converted(<<HourPart(date1.y, date1.m, date1.d, HourOf(date1)),
                                       HourPart(date2.y, date2.m, date2.d, HourOf(date2))>>)

\* a range whose end lies more than 7 days before its hour-carrying start
\* has been refused
C20_Witness ==
    /\ IsProcessed
    /\ op.timeframe = <<HourPart(2024, 3, 5, 14), DatePart(2024, 2, 26)>>
    /\ opResult = NotConverted(DateDifferenceExceeds)

\* the day of month d, or the last day of the month y-m if that is earlier
ClampedDay(y, m, d) ==
    CHOOSE c \in 1..d :
        /\ IsCalendarDate(DatePart(y, m, c))
        /\ \A e \in (c + 1)..d : ~IsCalendarDate(DatePart(y, m, e))
\* the calendar date `months` months before the date of part
MonthsBefore(part, months) ==
    LET total == part.y * 12 + (part.m - 1) - months
        y == total \div 12
        m == (total % 12) + 1
    IN  Date(y, m, ClampedDay(y, m, part.d))

FixedTokens ==
    {<<Word("now"), OffsetPart(1, "H")>>, <<Word("now"), OffsetPart(4, "H")>>,
     <<Word("now"), OffsetPart(1, "d")>>, <<Word("now"), OffsetPart(7, "d")>>,
     <<Word("today"), OffsetPart(1, "m")>>, <<Word("today"), OffsetPart(3, "m")>>,
     <<Word("today"), OffsetPart(12, "m")>>, <<Word("today"), OffsetPart(5, "y")>>,
     <<Word("all")>>}

\* C22: without expansion convertTimeframe returns each of the nine fixed
\* timeframes unchanged at every instant; with expansion 'all' becomes the
\* range from 2024-01-01 to the current UTC date.
C22_FixedTimeframes ==
    pc = "converted"
    => /\ (op.timeframe \in FixedTokens /\ ~op.convertFixed)
            => opResult = Converted(op.timeframe)
       /\ (op.timeframe = <<Word("all")>> /\ op.convertFixed)
            => opResult = Converted(<<DatePart(2024, 1, 1),
                                     DatePart(op.utcNow.y, op.utcNow.m, op.utcNow.d)>>)

\* 'now 1-H' has been returned unchanged
C22_Witness ==
    /\ pc = "converted"
    /\ ~op.convertFixed
    /\ op.timeframe = <<Word("now"), OffsetPart(1, "H")>>
    /\ opResult = Converted(<<Word("now"), OffsetPart(1, "H")>>)

\* C26: for a date without hour and an offset of n hours, convertTimeframe
\* returns the hour-precision range that starts at the date's midnight and
\* ends n hours later ('2024-03-15 1-H' gives '2024-03-15T00 2024-03-15T01').
C26_HourOffsetFromMidnight ==
    (IsProcessed /\ IsDate(op.timeframe[1]) /\ ~op.timeframe[1].hasHour
        /\ op.timeframe[2].kind = "offset" /\ op.timeframe[2].unit = "H"
        /\ op.timeframe[2].count \in 1..23)
    => LET anchor == op.timeframe[1]
       IN  opResult = Converted(<<HourPart(anchor.y, anchor.m, anchor.d, 0),
                                  HourPart(anchor.y, anchor.m, anchor.d,
                                           op.timeframe[2].count)>>)

\* ---- properties of the durations and resolutions (SpecResolution) ----
Elements == IF pc = "resolved" THEN 1..Len(op.timeframes) ELSE {}
DurationOf(i) == opResult.value.durations[i]
ResolutionOf(i) == opResult.value.resolutions[i]
IsMeasured(i) == DurationOf(i).ok /\ DurationOf(i).value # InvalidDateTime
Bucket(hours) ==
    CASE hours < 5 -> "1 minute"
      [] 5 <= hours /\ hours < 36 -> "8 minutes"
      [] 36 <= hours /\ hours < 72 -> "16 minutes"
      [] 72 <= hours /\ hours < 192 -> "1 hour"
      [] 192 <= hours /\ hours < 6480 -> "1 day"
      [] 6480 <= hours /\ hours < 45600 -> "1 week"
      [] hours >= 45600 -> "1 month"

\* C23: getResolutionAndRange gives a timeframe of h hours the resolution
\* 1 minute for h < 5, 8 minutes for 5 <= h < 36, 16 minutes for
\* 36 <= h < 72, 1 hour for 72 <= h < 192, 1 day for 192 <= h < 6480,
\* 1 week for 6480 <= h < 45600 and 1 month from 45600 hours on.
C23_ResolutionBuckets ==
    \A i \in Elements :
        IsMeasured(i)
        => ResolutionOf(i).ok /\ ResolutionOf(i).value[1] = Bucket(DurationOf(i).value)

\* a timeframe of exactly 192 hours has been given the resolution 1 day and
\* one of 168 hours the resolution 1 hour
C23_Witness ==
    /\ pc = "resolved"
    /\ Len(op.timeframes) = 2
    /\ DurationOf(1) = Converted(192) /\ ResolutionOf(1).value[1] = "1 day"
    /\ DurationOf(2) = Converted(168) /\ ResolutionOf(2).value[1] = "1 hour"

AllMeasured == pc = "resolved" /\ Elements # {} /\ \A i \in Elements : IsMeasured(i)
Longest == CHOOSE h \in {DurationOf(i).value : i \in Elements} :
                \A i \in Elements : DurationOf(i).value <= h
Shortest == CHOOSE h \in {DurationOf(i).value : i \in Elements} :
                \A i \in Elements : DurationOf(i).value >= h

\* C24: for timeframes that all have a duration, checkTimeframeResolution
\* fails with the different-resolutions error iff their resolutions are not
\* all the same; when they are the same it fails with the maximum-delta
\* error iff the longest duration is at least twice the shortest, and it
\* succeeds otherwise.
C24_CompatibleResolutions ==
    AllMeasured
    => IF \E i, j \in Elements : Bucket(DurationOf(i).value) # Bucket(DurationOf(j).value)
       THEN ~opResult.ok /\ opResult.error = DifferentResolutionsDetected
       ELSE IF Longest >= 2 * Shortest
       THEN ~opResult.ok /\ opResult.error = MaximumDeltaTooLarge
       ELSE opResult.ok

\* two timeframes of 5 and 10 hours, both of resolution 8 minutes, have been
\* refused because 10 is twice 5
C24_Witness ==
    /\ AllMeasured
    /\ Len(op.timeframes) = 2
    /\ DurationOf(1).value = 5 /\ DurationOf(2).value = 10
    /\ opResult.error = MaximumDeltaTooLarge

\* C25: timeframeToDuration(timeframe) is the end minus the start of
\* convertTimeframe(timeframe, true) and fails exactly when that call fails;
\* for 'now n-H' with 1 <= n <= 168 it is n hours.
C25_DurationIsEndMinusStart ==
    \A i \in Elements :
        LET timeframe == op.timeframes[i]
            range == ConvertTimeframe(timeframe, TRUE, DecodeTrendDatetime(op.utcNow))
        IN  /\ DurationOf(i).ok = range.ok
            /\ ~range.ok => DurationOf(i).error = range.error
            /\ (range.ok /\ IsRange(range.value))
                    => DurationOf(i).value = HoursBetween(range.value[1], range.value[2])
            /\ (Len(timeframe) = 2 /\ timeframe[1] = Word("now")
                    /\ timeframe[2].kind = "offset" /\ timeframe[2].unit = "H"
                    /\ timeframe[2].count \in 1..168)
                    => DurationOf(i) = Converted(timeframe[2].count)

\* 'now 168-H' has been measured as 168 hours
C25_Witness ==
    /\ pc = "resolved"
    /\ op.timeframes = <<<<Word("now"), OffsetPart(168, "H")>>>>
    /\ DurationOf(1) = Converted(168)

\* C27: the failures of a call can be told apart by error.name: a call that
\* fails because the quota is exceeded throws an error named
\* TrendsQuotaExceededError, and a call whose request failed (_get threw
\* after its retries) throws an error named TrendsRequestError.
C27_FailuresAreNamed ==
    /\ opResult = Failed(QuotaExceeded) => opResult.error.name = "TrendsQuotaExceededError"
    /\ (dispatch = "threw" /\ pc = "idle" /\ ~opResult.ok
            /\ opResult.error \notin ValidationErrors)
        => opResult.error.name = "TrendsRequestError"

\* C28: the query parameters of every request handed to _get include the
\* locale hl and the timezone offset tz.
C28_LocaleAndTimezoneSent ==
    dispatch # "none" => (sent.params.hl # Undefined /\ sent.params.tz # Undefined)

\* ---- properties of overlapping calls and separate objects (SpecFleet) ----
IsFleet == pc = "fleet"
\* three timestamps written by the throttle of one object lie within one
\* window of requestDelay
ThreeInWindow(c) ==
    /\ Len(clients[c].sends) = 3
    /\ clients[c].sends[3] - clients[c].sends[1] < requestDelay * 1000

Owned(c) == <<clients[c].cookieJar, clients[c].lastRequestTimes, clients[c].proxy>>

\* C30: the cookie store (and with it the bootstrapped status), the
\* rate-limiter timestamps and the proxy setting of an object change only in
\* steps of operations invoked on that object: a step of a _get call on it,
\* or setProxy on it, which leaves it with the proxy given to it.
C30_ObjectsShareNothing ==
    [][IsFleet =>
        \A c \in Clients :
            Owned(c)' # Owned(c) =>
                \/ \E g \in Gets : gets'[g] # gets[g] /\ gets'[g].on = c
                \/ gets' = gets /\ clients'[c].proxy = ProxyFor(c)]_vars

\* both objects were used: the first has its cookie, new timestamps and a
\* proxy, the second was used by a call that ended and has neither cookie
\* nor proxy
C30_Witness ==
    /\ IsFleet
    /\ clients[1].cookieJar /\ clients[1].proxy # NoProxy
    /\ clients[1].lastRequestTimes \cap {0, 1} = {}
    /\ ~clients[2].cookieJar /\ clients[2].proxy = NoProxy
    /\ \E g \in Gets : gets[g].on = 2 /\ gets[g].pc = "done"

\* _get's await of session.get settles in this step with a 401 or 403
SettlesAuthFailure ==
    /\ pc = "send"
    /\ Len(attempts') = Len(attempts) + 1
    /\ Last(attempts').status \in {401, 403}

\* the attempts so far that ended with a raised error carrying a 401 or 403
RaisedAuthFailures == {i \in 1..Len(attempts) : attempts[i].mode = "raised" /\ attempts[i].status \in {401, 403}}

\* the landing-page requests _initSession made for the dispatch
LandingFetches == {i \in 1..Len(warmup) : warmup[i].page = "landing"}

C32_WarmupFirstAndInOrder ==
    /\ (~cookieJar /\ dispatch # "none" /\ pc # "init_landing") =>
            (warmup # <<>> /\ warmup[1].page = "landing")
    /\ (dispatch = "active" /\ attempts # <<>> /\ warmup = <<>>) => cookieJar
    /\ \A i \in 1..Len(warmup) :
            IF warmup[i].page = "explore"
            THEN i > 1 /\ warmup[i - 1] = [page |-> "landing", ok |-> TRUE]
            ELSE i > 1 => warmup[i - 1] # [page |-> "landing", ok |-> TRUE]

\* the landing-page request of a dispatch failed; the dispatch went on to a
\* send attempt without an explore-page request
C32_Witness ==
    /\ warmup = <<[page |-> "landing", ok |-> FALSE]>>
    /\ attempts # <<>>

\* the requests of the last _initSession of the dispatch: a landing-page
\* request with or without the explore-page request after it
LastWarmup ==
    IF warmup = <<>> THEN <<>>
    ELSE IF Last(warmup).page = "landing" THEN <<Last(warmup)>>
    ELSE SubSeq(warmup, Len(warmup) - 1, Len(warmup))

\* C33 (as claimed): once a dispatch is past its warm-up, the session has
\* its cookie (is Ready) exactly when both requests of the last warm-up
\* succeeded; so a session left without it runs the warm-up again at the next
\* dispatch and a Ready session does not.
C33_ReadyIffBothStepsSucceeded ==
    (pc \notin {"init_landing", "init_explore"} /\ warmup # <<>>) =>
        (cookieJar <=> (Len(LastWarmup) = 2 /\ \A i \in 1..2 : LastWarmup[i].ok))

\* C34 (as claimed): a dispatch in which a warm-up request failed does not
\* end as if nothing had happened: it does not return a response, and the
\* error it throws is not the retry loop's own.
C34_WarmupFailureReported ==
    (\E i \in 1..Len(warmup) : ~warmup[i].ok) =>
        /\ dispatch # "returned"
        /\ dispatch = "threw" => (opResult.error # RequestExhausted /\ ~IsTransportError(opResult.error))

\* a send attempt passes the throttle gate in this step
PassesGate == requestDelay > 0 /\ pc \in {"loop", "sleeping"} /\ pc' = "send"

\* C35 (as claimed): with requestDelay > 0 the rate limiter always holds
\* exactly two timestamps, and every attempt that passes the gate replaces
\* exactly the oldest one with the current time and keeps the other.
C35_AlwaysTwoTimestamps ==
    /\ [](requestDelay > 0 => Cardinality(lastRequestTimes) = 2)
    /\ [][PassesGate =>
            /\ lastRequestTimes' = (lastRequestTimes \ {SetMin(lastRequestTimes)}) \cup {clock'}
            /\ lastRequestTimes \ {SetMin(lastRequestTimes)} \subseteq lastRequestTimes'
            /\ Cardinality(lastRequestTimes') = 2]_vars

\* C36: with requestDelay > 0, a send attempt that passes the throttle gate
\* does so at least requestDelay after the attempt two before it, whichever
\* dispatch that one belonged to; warm-up requests are not counted.
C36_AtMostTwoPerWindow ==
    [][(PassesGate /\ Len(sendTimes) >= 2) =>
            clock' - sendTimes[Len(sendTimes) - 1] >= requestDelay * 1000]_vars

\* the first send of a second dispatch, made exactly requestDelay after the
\* first of the two sends of the dispatch before it
C36_Witness ==
    /\ requestDelay > 0
    /\ calls = 2
    /\ pc = "send"
    /\ attempts = <<>>
    /\ Len(sendTimes) = 3
    /\ sendTimes[3] - sendTimes[1] = requestDelay * 1000
    /\ sendTimes[2] > sendTimes[1]

RECURSIVE TotalWait(_)
TotalWait(w) == IF w = <<>> THEN 0 ELSE w[1] + TotalWait(Tail(w))

\* every attempt of the dispatch got 429, and the dispatch used them all up
AllRateLimited ==
    /\ Len(attempts) = maxRetries
    /\ \A i \in 1..Len(attempts) : attempts[i].status = 429

\* C37 (as claimed): no backoff wait follows the final attempt of a dispatch,
\* and a dispatch that failed with 429 on every attempt has waited
\* 5 x (2^(maxRetries-1) - 1) seconds of backoff in total.
C37_BackoffOnlyBetweenAttempts ==
    /\ pc = "backoff" => Len(attempts) < maxRetries
    /\ (dispatch = "threw" /\ AllRateLimited) =>
            TotalWait(waits) = BackoffBase * (Pow2(maxRetries - 1) - 1)

\* the instant the caller's clock shows, as a DateTime
NowOfClock == DecodeTrendDatetime(HourPart(2024, 9, 12, 23)) + (clock - Epoch) \div 3600000

\* a timeframe of the client, split into the parts the canonical form is
\* defined on
AsParts(frame) ==
    CASE frame.form = "all" -> <<Word("all")>>
      [] frame.form \in {"now", "today"} -> <<Word(frame.form), OffsetPart(frame.n, frame.unit)>>
      [] frame.form = "dates" ->
            <<DatePart(frame.from.y, frame.from.m, frame.from.d), DatePart(frame.to.y, frame.to.m, frame.to.d)>>
      [] frame.form = "offset" ->
            <<DatePart(frame.from.y, frame.from.m, frame.from.d), OffsetPart(frame.n, frame.unit)>>
      [] frame.form = "hours" ->
            <<ToFormat(Minus(NowOfClock, frame.n, frame.unit), TRUE), ToFormat(NowOfClock, TRUE)>>

\* the comparison items of the explore request
ComparisonItems(params) == (CHOOSE p \in params.req : p[1] = "comparisonItem")[2]

\* C38 (as claimed): whichever token-based operation is called, the timeframe
\* of every comparison item of the explore request is the canonical form
\* (convertTimeframe without expansion) of the caller's timeframe at the
\* item's position.
C38_SentTimeframesCanonical ==
    [][\A name \in {"interestOverTime", "relatedQueries", "relatedTopics", "interestByRegion"},
          a \in Arguments :
            (CallWithin(name, a.keywords, a.timeframe, a.geo) /\ phase' = 1) =>
                LET items == ComparisonItems(sent'.params)
                IN  \A i \in 1..Len(items) :
                        LET canonical == ConvertTimeframe(
                                             AsParts(a.timeframe[((i - 1) % Len(a.timeframe)) + 1]),
                                             FALSE, NowOfClock)
                        IN  canonical.ok /\ AsParts(items[i].time) = canonical.value]_vars

\* C39 (as claimed): after _encodeItems, whether it returned or threw, the
\* keyword, timeframe and geo arguments are as the caller passed them: each
\* list has the same length and elements as before.
C39_ArgumentsUnchanged ==
    pc = "encoded" => opResult.args = <<op.keywords, op.timeframe, op.geo>>

\* C40 (as claimed): checkTimeframeResolution returns without throwing for a
\* single timeframe, and for a list of identical timeframes, that
\* convertTimeframe converts; a range of zero length is no exception.
C40_CompatibleWithItself ==
    (/\ pc = "resolved"
     /\ op.timeframes # <<>>
     /\ \A i \in 1..Len(op.timeframes) : op.timeframes[i] = op.timeframes[1]
     /\ ConvertTimeframe(op.timeframes[1], FALSE, DecodeTrendDatetime(op.utcNow)).ok)
        => opResult.ok

====
